---------------------------- MODULE Spec2Model ----------------------------
(***************************************************************************)
(* Real-estate listing service: relational tables (shared/schema.ts), the  *)
(* persistence adapter (server/storage.ts), the passport session setup and *)
(* the REST handlers (server/index.ts, server/routes.ts, server/seed.ts).  *)
(*                                                                         *)
(* Conventions.  A nullable column or an optional field is a set with at   *)
(* most one element: {} is NULL / undefined, {v} is the value v.  A text   *)
(* that the code parses character by character (parseInt) is a sequence of *)
(* one-character strings.                                                  *)
(***************************************************************************)
EXTENDS Integers, Sequences, FiniteSets, TLC

VARIABLES
  properties,   \* rows of table properties
  users,        \* rows of table users
  nextUserId,   \* next value of the serial users.id
  saved,        \* rows of table saved_properties
  nextSavedId,  \* next value of the serial saved_properties.id
  sess,         \* session store: client cookie -> passport user id (0 or 1 element)
  req,          \* in-flight and answered requests, one per handler slot
  probe,        \* one invocation of the listing query (storage call or GET /api/properties)
  agents,       \* rows of table agents
  seed,         \* the runs of seedDatabase: position and the counts each has read
  enquiries     \* rows of table enquiries

vars ==
  <<properties, users, nextUserId, saved, nextSavedId, sess, req, probe, agents, seed,
    enquiries>>

None == {}
Some(v) == {v}
The(s) == CHOOSE v \in s : TRUE

(***************************************************************************)
(* Table properties                                                        *)
(***************************************************************************)

\* db.insert(properties).values(v): column defaults for omitted columns
\* (status 'available', featured false); nullable columns omitted are NULL.
InsertPropertyRow(v, id) ==
  [ id        |-> id,
    city      |-> v.city,
    location  |-> v.location,
    type      |-> v.type,
    category  |-> v.category,
    price     |-> v.price,
    bedrooms  |-> IF "bedrooms" \in DOMAIN v THEN v.bedrooms ELSE None,
    bathrooms |-> IF "bathrooms" \in DOMAIN v THEN v.bathrooms ELSE None,
    area      |-> IF "area" \in DOMAIN v THEN v.area ELSE None,
    status    |-> IF "status" \in DOMAIN v THEN v.status ELSE "available",
    featured  |-> IF "featured" \in DOMAIN v THEN v.featured ELSE Some(FALSE),
    images    |-> v.images,
    agentId   |-> IF "agentId" \in DOMAIN v THEN v.agentId ELSE None ]

\* The eight listings of seedDatabase (images is the length of the image list).
SeedPropertyValues ==
  << [city |-> "Mumbai", location |-> "Bandra West", type |-> "apartment",
      category |-> "buy", price |-> 12500000, bedrooms |-> Some(3),
      bathrooms |-> Some(2), area |-> Some(1250), images |-> 1,
      status |-> "available", featured |-> Some(TRUE), agentId |-> Some(1)],
     [city |-> "Mumbai", location |-> "Juhu", type |-> "villa",
      category |-> "buy", price |-> 29500000, bedrooms |-> Some(4),
      bathrooms |-> Some(4), area |-> Some(2680), images |-> 1,
      status |-> "available", featured |-> Some(TRUE), agentId |-> Some(2)],
     [city |-> "Mumbai", location |-> "Powai", type |-> "apartment",
      category |-> "buy", price |-> 7550000, bedrooms |-> Some(1),
      bathrooms |-> Some(1), area |-> Some(650), images |-> 1,
      status |-> "available", agentId |-> Some(3)],
     [city |-> "Mumbai", location |-> "Andheri East", type |-> "commercial",
      category |-> "buy", price |-> 17500000, area |-> Some(1800), images |-> 1,
      status |-> "available", agentId |-> Some(4)],
     [city |-> "Mumbai", location |-> "Malad West", type |-> "apartment",
      category |-> "rent", price |-> 35000, bedrooms |-> Some(2),
      bathrooms |-> Some(2), area |-> Some(950), images |-> 1,
      status |-> "available", agentId |-> Some(1)],
     [city |-> "Mumbai", location |-> "Dadar West", type |-> "apartment",
      category |-> "buy", price |-> 18500000, bedrooms |-> Some(3),
      bathrooms |-> Some(3), area |-> Some(1500), images |-> 1,
      status |-> "available", featured |-> Some(TRUE), agentId |-> Some(2)],
     [city |-> "Mumbai", location |-> "Andheri West", type |-> "apartment",
      category |-> "rent", price |-> 45000, bedrooms |-> Some(2),
      bathrooms |-> Some(2), area |-> Some(850), images |-> 1,
      status |-> "available", agentId |-> Some(3)],
     [city |-> "Mumbai", location |-> "Worli", type |-> "apartment",
      category |-> "buy", price |-> 45000000, bedrooms |-> Some(3),
      bathrooms |-> Some(3), area |-> Some(2100), images |-> 1,
      status |-> "available", agentId |-> Some(4)] >>

SeedProperties ==
  { InsertPropertyRow(SeedPropertyValues[i], i) : i \in DOMAIN SeedPropertyValues }

\* storage.createProperty: insert ... returning
createProperty(insertProperty, id) == InsertPropertyRow(insertProperty, id)

(***************************************************************************)
(* Listing filter: storage.getProperties                                   *)
(***************************************************************************)
FilterFields ==
  {"category", "type", "city", "location", "minPrice", "maxPrice",
   "bedrooms", "bathrooms", "minArea", "maxArea", "status", "featured"}

NoFilter == [k \in FilterFields |-> None]

NullableColumns == {"bedrooms", "bathrooms", "area", "featured"}

\* value of a column as seen by a SQL comparison: no value when NULL
ColVal(row, col) == IF col \in NullableColumns THEN row[col] ELSE Some(row[col])

Cond(op, col, val) == [op |-> op, col |-> col, val |-> val]

\* EvalCond with exclusive range bounds
EvalCond_Exclusive(c, row) ==
  \E x \in ColVal(row, c.col) :
     CASE c.op = "eq"  -> x = c.val
       [] c.op = "gte" -> x > c.val
       [] c.op = "lte" -> x < c.val

\* eq / gte / lte of drizzle-orm; a comparison with NULL is not true
EvalCond(c, row) ==
  \E x \in ColVal(row, c.col) :
     CASE c.op = "eq"  -> x = c.val
       [] c.op = "gte" -> x >= c.val
       [] c.op = "lte" -> x <= c.val

\* `if (filter.category)`: JavaScript truthiness of an optional string
TruthyText(o) == o # None /\ o # Some("")

\* `if (filter.minPrice !== undefined)`
Defined(o) == o # None

\* the list queryConditions built by getProperties, in push order
QueryConditions(filter) ==
    (IF TruthyText(filter.category)
       THEN <<Cond("eq", "category", The(filter.category))>> ELSE <<>>)
 \o (IF TruthyText(filter.type)
       THEN <<Cond("eq", "type", The(filter.type))>> ELSE <<>>)
 \o (IF TruthyText(filter.city)
       THEN <<Cond("eq", "city", The(filter.city))>> ELSE <<>>)
 \o (IF TruthyText(filter.location)
       THEN <<Cond("eq", "location", The(filter.location))>> ELSE <<>>)
 \o (IF Defined(filter.minPrice)
       THEN <<Cond("gte", "price", The(filter.minPrice))>> ELSE <<>>)
 \o (IF Defined(filter.maxPrice)
       THEN <<Cond("lte", "price", The(filter.maxPrice))>> ELSE <<>>)
 \o (IF Defined(filter.bedrooms)
       THEN <<Cond("gte", "bedrooms", The(filter.bedrooms))>> ELSE <<>>)
 \o (IF Defined(filter.bathrooms)
       THEN <<Cond("gte", "bathrooms", The(filter.bathrooms))>> ELSE <<>>)
 \o (IF Defined(filter.minArea)
       THEN <<Cond("gte", "area", The(filter.minArea))>> ELSE <<>>)
 \o (IF Defined(filter.maxArea)
       THEN <<Cond("lte", "area", The(filter.maxArea))>> ELSE <<>>)
 \o (IF TruthyText(filter.status)
       THEN <<Cond("eq", "status", The(filter.status))>> ELSE <<>>)
 \o (IF Defined(filter.featured)
       THEN <<Cond("eq", "featured", The(filter.featured))>> ELSE <<>>)

\* storage.getProperties(filter?): filterOpt is None when the argument is omitted
getProperties(filterOpt, table) ==
  LET queryConditions ==
        IF filterOpt # None THEN QueryConditions(The(filterOpt)) ELSE <<>>
  IN IF Len(queryConditions) > 0
       THEN { row \in table :
                \A i \in 1..Len(queryConditions) : EvalCond(queryConditions[i], row) }
       ELSE table

(***************************************************************************)
(* GET /api/properties                                                     *)
(***************************************************************************)
Digits == <<"0", "1", "2", "3", "4", "5", "6", "7", "8", "9">>

IsDigit(c) == \E d \in 1..10 : Digits[d] = c

DigitVal(c) == (CHOOSE d \in 1..10 : Digits[d] = c) - 1

RECURSIVE SkipSpaces(_, _)
SkipSpaces(s, i) ==
  IF i <= Len(s) /\ s[i] = " " THEN SkipSpaces(s, i + 1) ELSE i

RECURSIVE ParseDigits(_, _, _)
ParseDigits(s, i, acc) ==
  IF i <= Len(s) /\ IsDigit(s[i])
    THEN ParseDigits(s, i + 1, acc * 10 + DigitVal(s[i]))
    ELSE acc

\* a JavaScript number as far as the handlers use it: NaN or an integer
NaN == [nan |-> TRUE, val |-> 0]
Num(n) == [nan |-> FALSE, val |-> n]

\* parseInt(s) in radix 10: leading blanks, an optional sign, then the longest
\* run of decimal digits; NaN when that run is empty
parseInt(s) ==
  LET i    == SkipSpaces(s, 1)
      neg  == i <= Len(s) /\ s[i] = "-"
      j    == IF i <= Len(s) /\ s[i] \in {"-", "+"} THEN i + 1 ELSE i
      n    == ParseDigits(s, j, 0)
  IN IF j <= Len(s) /\ IsDigit(s[j])
       THEN Num(IF neg THEN 0 - n ELSE n)
       ELSE NaN

\* `if (req.query.x)`: a query parameter is skipped when absent or empty
TruthyParam(o) == o # None /\ o # Some("")

\* the same test for a parameter spelled as a sequence of characters
TruthyChars(o) == o # None /\ o # Some(<<>>)

\* lines 482-494: the filter object built from req.query.  A numeric entry
\* holds the parseInt result; bathrooms is never copied from the query.
QueryToFilter(query) ==
  [ category  |-> IF TruthyParam(query.category) THEN query.category ELSE None,
    type      |-> IF TruthyParam(query.type) THEN query.type ELSE None,
    city      |-> IF TruthyParam(query.city) THEN query.city ELSE None,
    location  |-> IF TruthyParam(query.location) THEN query.location ELSE None,
    minPrice  |-> IF TruthyChars(query.minPrice)
                    THEN Some(parseInt(The(query.minPrice))) ELSE None,
    maxPrice  |-> IF TruthyChars(query.maxPrice)
                    THEN Some(parseInt(The(query.maxPrice))) ELSE None,
    bedrooms  |-> IF TruthyChars(query.bedrooms)
                    THEN Some(parseInt(The(query.bedrooms))) ELSE None,
    bathrooms |-> None,
    minArea   |-> IF TruthyChars(query.minArea)
                    THEN Some(parseInt(The(query.minArea))) ELSE None,
    maxArea   |-> IF TruthyChars(query.maxArea)
                    THEN Some(parseInt(The(query.maxArea))) ELSE None,
    status    |-> IF TruthyParam(query.status) THEN query.status ELSE None,
    featured  |-> IF TruthyParam(query.featured)
                    THEN Some(The(query.featured) = "true") ELSE None ]

NumericFields == {"minPrice", "maxPrice", "bedrooms", "bathrooms", "minArea", "maxArea"}

\* propertyFilterSchema.safeParse: z.number() rejects NaN
propertyFilterSchemaOk(raw) ==
  \A k \in NumericFields : \A x \in raw[k] : ~x.nan

\* filterResult.data
propertyFilterSchemaData(raw) ==
  [ k \in FilterFields |->
      IF k \in NumericFields THEN { x.val : x \in raw[k] } ELSE raw[k] ]

\* the handler of GET /api/properties: status and body
GetPropertiesRoute(query, table) ==
  LET filter == QueryToFilter(query)
  IN IF ~propertyFilterSchemaOk(filter)
       THEN [status |-> 400, message |-> Some("Invalid filter parameters"), rows |-> {}]
       ELSE [status |-> 200, message |-> None,
             rows |-> getProperties(Some(propertyFilterSchemaData(filter)), table)]

(***************************************************************************)
(* Table users; password hashing                                           *)
(***************************************************************************)

\* bcrypt.hash(plain, cost) with the salt it draws: the stored text is a
\* bcrypt string, never the plain text
bcryptHash(plain, cost, salt) ==
  [enc |-> "bcrypt", cost |-> cost, salt |-> salt, text |-> plain]

\* bcryptCompare that accepts any password
bcryptCompare_Any(plain, stored) == TRUE

\* bcrypt.compare(plain, stored): false for anything that is not a hash of plain
bcryptCompare(plain, stored) == stored.enc = "bcrypt" /\ stored.text = plain

\* the admin row inserted by seedDatabase
AdminUser ==
  [ id |-> 1, username |-> "admin",
    password |-> bcryptHash("admin123", 10, "s0"),
    email |-> Some("admin@realestate.com"), name |-> Some("Administrator"),
    phone |-> None, role |-> "admin", profileImage |-> None, createdAt |-> 1 ]

SeedUsers == {AdminUser}

(***************************************************************************)
(* Table agents and the runs of seedDatabase                               *)
(***************************************************************************)
\* the agents seedDatabase inserts, in order (email is unique in the table)
SeedAgentValues ==
  << [email |-> "aditya@homequest.com"], [email |-> "sneha@homequest.com"],
     [email |-> "rajiv@homequest.com"], [email |-> "neha@homequest.com"] >>

\* db.insert(agents).values(list) on a table of n rows: serial ids follow on
InsertAgentRows(list, n) == { [id |-> n + i, email |-> list[i].email] : i \in DOMAIN list }

SeedAgents == InsertAgentRows(SeedAgentValues, 0)

MaxSeedRuns == 3          \* runs of seedDatabase (starts of the server)

SeedRuns == 1..MaxSeedRuns

\* a run of seedDatabase: its position, and agentCount and propertyCount as read
SeedIdle == [pc |-> "idle", agentCount |-> 0, propertyCount |-> 0]

\* a run that is over: "done" (seeded) or "failed" (an insert threw and the
\* catch logged it); a run that found data ends "skipped" with its counts
SeedOver(how) == [pc |-> how, agentCount |-> 0, propertyCount |-> 0]

\* the runs once the server is up: the first has seeded the empty database,
\* every later one has found its rows
SeedSettled ==
  [p \in SeedRuns |->
     IF p = 1 THEN SeedOver("done")
              ELSE [pc |-> "skipped", agentCount |-> Len(SeedAgentValues),
                    propertyCount |-> Len(SeedPropertyValues)]]

(***************************************************************************)
(* Listing query: inputs                                                   *)
(***************************************************************************)
MaxFilterFields == 3      \* fields present in one filter or query
MaxExtraProperties == 1   \* listings created besides the seeded ones

\* listings created through storage.createProperty besides the seed
ExtraPropertyValues ==
  << [city |-> "Pune", location |-> "Baner", type |-> "villa", category |-> "rent",
      price |-> 0, bedrooms |-> Some(0), status |-> "sold", featured |-> None,
      images |-> 1],
     [city |-> "Pune", location |-> "Juhu", type |-> "plot", category |-> "pg",
      price |-> 45000, bedrooms |-> Some(2), bathrooms |-> Some(1),
      area |-> Some(950), images |-> 2] >>

Tables ==
  { SeedProperties \cup
      { createProperty(ExtraPropertyValues[i], Len(SeedPropertyValues) + i) : i \in E } :
    E \in { T \in SUBSET DOMAIN ExtraPropertyValues : Cardinality(T) <= MaxExtraProperties } }

FilterVals ==
  [k \in FilterFields |->
    CASE k = "category" -> <<"", "buy", "rent">>
      [] k = "type"     -> <<"", "apartment", "villa">>
      [] k = "city"     -> <<"", "Mumbai", "Pune">>
      [] k = "location" -> <<"", "Juhu", "Baner">>
      [] k = "status"   -> <<"", "available", "sold">>
      [] k = "minPrice" -> <<0, 45000>>
      [] k = "maxPrice" -> <<45000, 12500000>>
      [] k = "bedrooms" -> <<0, 3>>
      [] k = "bathrooms" -> <<2, 3>>
      [] k = "minArea"  -> <<950, 1250>>
      [] k = "maxArea"  -> <<950, 1250>>
      [] k = "featured" -> <<TRUE, FALSE>> ]

QueryVals ==
  [k \in FilterFields |->
    CASE k = "category" -> <<"", "buy", "rent">>
      [] k = "type"     -> <<"apartment", "villa">>
      [] k = "city"     -> <<"Mumbai", "Pune">>
      [] k = "location" -> <<"Juhu", "Baner">>
      [] k = "status"   -> <<"available", "sold">>
      [] k = "minPrice" -> << <<"0">>, <<"4", "5", "0", "0", "0">>, <<"a", "b", "c">> >>
      [] k = "maxPrice" -> << <<"4", "5", "0", "0", "0">>,
                              <<"1", "2", "5", "0", "0", "0", "0", "0">> >>
      [] k = "bedrooms" -> << <<"0">>, <<" ", "3", "x">> >>
      [] k = "bathrooms" -> << <<"2">>, <<"3">> >>
      [] k = "minArea"  -> << <<"9", "5", "0">>, <<>> >>
      [] k = "maxArea"  -> << <<"9", "5", "0">>, <<"-", "1">> >>
      [] k = "featured" -> <<"true", "false">> ]

\* the sets of fields one filter or query sets
FieldSets == { T \in SUBSET FilterFields : Cardinality(T) <= MaxFilterFields }

\* the ways to pick, for each field of S, one of the values vals lists for it
Picks(vals, S) == { h \in [S -> 1..3] : \A k \in S : h[k] <= Len(vals[k]) }

\* the record that sets the fields of S as g picks and leaves the others out
FilterOf(vals, S, g) ==
  [k \in FilterFields |-> IF k \in S THEN Some(vals[k][g[k]]) ELSE None]

ProbeIdle ==
  [pc |-> "idle", kind |-> "none", filter |-> None, query |-> NoFilter,
   status |-> 0, message |-> None, rows |-> {}]

\* p is an invocation to make: storage.getProperties without or with a
\* filter, or GET /api/properties with a query
ProbeInput(p) ==
  \E S \in FieldSets :
     \/ S = {} /\ p = [ProbeIdle EXCEPT !.pc = "call", !.kind = "storage"]
     \/ \E g \in Picks(FilterVals, S) :
           p = [ProbeIdle EXCEPT !.pc = "call", !.kind = "storage",
                                 !.filter = Some(FilterOf(FilterVals, S, g))]
     \/ \E g \in Picks(QueryVals, S) :
           p = [ProbeIdle EXCEPT !.pc = "call", !.kind = "route",
                                 !.query = FilterOf(QueryVals, S, g)]

\* a caller invokes storage.getProperties(filter)
CallGetProperties ==
  /\ probe.pc = "call" /\ probe.kind = "storage"
  /\ probe' = [probe EXCEPT !.pc = "done", !.status = 200,
                            !.rows = getProperties(probe.filter, properties)]
  /\ UNCHANGED <<properties, users, nextUserId, saved, nextSavedId, sess, req, agents, seed, enquiries>>

\* a client requests GET /api/properties?query
HandleGetProperties ==
  /\ probe.pc = "call" /\ probe.kind = "route"
  /\ LET res == GetPropertiesRoute(probe.query, properties)
     IN probe' = [probe EXCEPT !.pc = "done", !.status = res.status,
                               !.message = res.message, !.rows = res.rows]
  /\ UNCHANGED <<properties, users, nextUserId, saved, nextSavedId, sess, req, agents, seed, enquiries>>

(***************************************************************************)
(* Requests and sessions                                                   *)
(***************************************************************************)
MaxInFlight == 2          \* handler invocations that may overlap

ReqIds == 1..MaxInFlight
Clients == {"c1", "c2"}

NoResp == [status |-> 0, body |-> <<>>]

\* One handler invocation.  pc, client, ep, param, body, user (req.user), loc
\* (a local of the handler) and resp are the request's own state; seen,
\* touched and calls are history fields: the users row that had the body's
\* username when the request arrived, whether the request has queried a
\* table, and how many requests it has sent to the upstream AI service.
IdleReq ==
  [pc |-> "idle", client |-> "c1", ep |-> "none", param |-> None, body |-> <<>>,
   user |-> None, loc |-> None, seen |-> None, touched |-> FALSE, calls |-> 0,
   resp |-> NoResp]

(***************************************************************************)
(* Specification of the listing query                                      *)
(***************************************************************************)
InitFilter ==
  /\ properties \in Tables
  /\ users = SeedUsers
  /\ nextUserId = 2
  /\ saved = {}
  /\ nextSavedId = 1
  /\ sess = [c \in Clients |-> None]
  /\ req = [r \in ReqIds |-> IdleReq]
  /\ ProbeInput(probe)
  /\ agents = SeedAgents
  /\ seed = SeedSettled
  /\ enquiries = {}

NextFilter == CallGetProperties \/ HandleGetProperties

SpecFilter == InitFilter /\ [][NextFilter]_vars

(***************************************************************************)
(* Properties of the listing query                                         *)
(***************************************************************************)
TextFields == {"category", "type", "city", "location", "status"}

\* row meets the condition of every field of f that counts as present;
\* present(k) tells whether field k does
Meets(row, f, present(_)) ==
  /\ \A k \in TextFields : present(k) => row[k] = The(f[k])
  /\ present("minPrice") => row.price >= The(f.minPrice)
  /\ present("maxPrice") => row.price <= The(f.maxPrice)
  /\ present("bedrooms") => \E b \in row.bedrooms : b >= The(f.bedrooms)
  /\ present("bathrooms") => \E b \in row.bathrooms : b >= The(f.bathrooms)
  /\ present("minArea") => \E a \in row.area : a >= The(f.minArea)
  /\ present("maxArea") => \E a \in row.area : a <= The(f.maxArea)
  /\ present("featured") => row.featured = f.featured

StorageProbeDone == probe.pc = "done" /\ probe.kind = "storage"

\* C1 as stated: getProperties returns exactly the stored rows that meet the
\* condition of every field the filter holds (a field is present when it is
\* set, whatever its value), and the whole table when no field is set.
C1_AsStated ==
  StorageProbeDone =>
    probe.rows =
      { row \in properties :
          \A f \in probe.filter :
             LET present(k) == f[k] # None IN Meets(row, f, present) }

\* C1 amended: getProperties returns exactly the stored rows that meet the
\* condition of every present field, where a text field (category, type,
\* city, location, status) is present when it is set to a non-empty string
\* and every other field when it is set; bounds are inclusive.
C1_FilterExact ==
  StorageProbeDone =>
    probe.rows =
      { row \in properties :
          \A f \in probe.filter :
             LET present(k) == IF k \in TextFields THEN f[k] \notin {None, Some("")}
                                                   ELSE f[k] # None
             IN Meets(row, f, present) }

\* a filter with an empty text field, a text field and an inclusive bound
\* that a stored price equals, answered with some but not all rows
C1_Witness ==
  /\ StorageProbeDone
  /\ \E f \in probe.filter :
       /\ f.status = Some("")
       /\ f.city = Some("Mumbai")
       /\ \E row \in probe.rows : f.maxPrice = Some(row.price)
  /\ probe.rows # {} /\ probe.rows # properties

RouteProbeDone == probe.pc = "done" /\ probe.kind = "route"

\* the filter a query asks for: every supplied (non-empty) parameter, numbers
\* read in decimal
AskedFilter(query) ==
  [ k \in FilterFields |->
      IF k \in NumericFields THEN { parseInt(v).val : v \in query[k] \ {<<>>} }
      ELSE IF k = "featured" THEN { v = "true" : v \in query[k] \ {""} }
      ELSE query[k] \ {""} ]

WellFormedQuery(query) ==
  \A k \in NumericFields : \A v \in query[k] \ {<<>>} : ~parseInt(v).nan

\* C2 as stated: GET /api/properties answers 200 with exactly the stored rows
\* that meet the condition of every supplied query parameter, bathrooms
\* included.
C2_AsStated ==
  (RouteProbeDone /\ WellFormedQuery(probe.query)) =>
     /\ probe.status = 200
     /\ probe.rows =
          { row \in properties :
              LET f == AskedFilter(probe.query)
                  present(k) == f[k] # None
              IN Meets(row, f, present) }

(***************************************************************************)
(* Persistence adapter: users                                              *)
(***************************************************************************)

\* storage.getUser(id): the row with that id, if any
getUser(id, table) == { u \in table : u.id = id }

\* getUserByUsername that finds nobody
getUserByUsername_Nobody(username, table) == {}

\* storage.getUserByUsername(username)
getUserByUsername(username, table) == { u \in table : u.username = username }

\* userWithoutPassword that keeps every field
userWithoutPassword_Whole(user) == user

\* const { password, ...userWithoutPassword } = user
userWithoutPassword(user) == [f \in DOMAIN user \ {"password"} |-> user[f]]

\* the unique constraints of table users: username, and email when not NULL
UsersUniqueViolation(row, table) ==
  \E u \in table :
     \/ u.username = row.username
     \/ (row.email # None /\ u.email = row.email)

\* an optional text column of an insert or update: NULL when the key is omitted
OptionalText(values, k) == IF k \in DOMAIN values THEN Some(values[k]) ELSE None

\* the row storage.createUser inserts: the given values with the password
\* replaced by its hash, role defaulting to 'user'
createUserRow(insertUser, id, salt) ==
  [ id       |-> id,
    username |-> insertUser.username,
    password |-> bcryptHash(insertUser.password, 10, salt),
    email    |-> OptionalText(insertUser, "email"),
    name     |-> OptionalText(insertUser, "name"),
    phone    |-> OptionalText(insertUser, "phone"),
    role     |-> IF "role" \in DOMAIN insertUser THEN insertUser.role ELSE "user",
    profileImage |-> None,
    createdAt |-> id ]

Salts == {"s1"}

(***************************************************************************)
(* Validation schemas                                                      *)
(***************************************************************************)
InsertUserFields == {"username", "password", "email", "name", "phone"}

\* insertUserSchema.safeParse: username and password are required strings
insertUserSchemaOk(body) == {"username", "password"} \subseteq DOMAIN body

\* insertUserSchemaData that keeps every key of the body
insertUserSchemaData_Whole(body) == body

\* its data: the picked keys only, anything else in the body is dropped
insertUserSchemaData(body) ==
  [f \in DOMAIN body \cap InsertUserFields |-> body[f]]

\* loginSchema.safeParse: both strings required, each at least one character
loginSchemaOk(body) ==
  /\ {"username", "password"} \subseteq DOMAIN body
  /\ Len(body.username) >= 1
  /\ Len(body.password) >= 1

(***************************************************************************)
(* Request pipeline                                                        *)
(***************************************************************************)
\* res.status(status).json(body) ends the request: its req object is gone
Answer(q, status, body) ==
  [q EXCEPT !.pc = "done", !.user = None, !.loc = None,
            !.resp = [status |-> status, body |-> body]]

Message(text) == [message |-> text]

\* req.isAuthenticated(): passport has attached a user to the request
isAuthenticated(q) == q.user # None

OtherTables == <<properties, saved, nextSavedId, probe, agents, seed, enquiries>>

\* deserializeUser answering from the rows as seeded instead of the current ones
deserializeUser_Seeded(id, table) ==
  LET user == getUser(id, SeedUsers) IN
  IF user = None THEN [err |-> Some("User not found"), user |-> None]
                 ELSE [err |-> None, user |-> Some(userWithoutPassword(The(user)))]

\* passport.deserializeUser(id): the row without its password, or the error
\* 'User not found' when no row has that id
deserializeUser(id, table) ==
  LET user == getUser(id, table) IN
  IF user = None THEN [err |-> Some("User not found"), user |-> None]
                 ELSE [err |-> None, user |-> Some(userWithoutPassword(The(user)))]

\* the top-level error middleware: status 500 unless the error carries one,
\* and the error's own message as the body
ErrorMiddleware(q, errMessage) == Answer(q, 500, Message(errMessage))

\* A request arrives on a free handler slot with the client's cookie, and
\* passport.session() runs: when the session holds a user id, deserializeUser
\* loads the row and attaches it as req.user; its error goes to next(err).
Receive(r, q) ==
  LET new == [IdleReq EXCEPT !.pc = "route", !.client = q.client, !.ep = q.ep,
                             !.param = q.param, !.body = q.body,
                             !.seen = IF "username" \in DOMAIN q.body
                                        THEN { u \in users : u.username = q.body.username }
                                        ELSE None] IN
  /\ req[r].pc \in {"idle", "done"}
  /\ \A r2 \in ReqIds : r2 < r => req[r2].pc \notin {"idle", "done"}
  /\ IF sess[q.client] = None
       THEN req' = [req EXCEPT ![r] = new]
       ELSE LET d == deserializeUser(The(sess[q.client]), users) IN
            IF d.err # None
              THEN req' = [req EXCEPT ![r] =
                             ErrorMiddleware([new EXCEPT !.touched = TRUE], The(d.err))]
              ELSE req' = [req EXCEPT ![r] =
                             [new EXCEPT !.touched = TRUE, !.user = d.user]]
  /\ UNCHANGED <<users, nextUserId, sess, OtherTables>>

(***************************************************************************)
(* POST /api/users/register                                                *)
(***************************************************************************)

\* validation, then the username lookup
RegisterLookup(r) ==
  LET q == req[r] IN
  /\ q.pc = "route" /\ q.ep = "register"
  /\ IF ~insertUserSchemaOk(q.body)
       THEN req' = [req EXCEPT ![r] = Answer(q, 400, Message("Invalid user data"))]
       ELSE LET existingUser == getUserByUsername(q.body.username, users) IN
            IF existingUser # None
              THEN req' = [req EXCEPT ![r] =
                             Answer([q EXCEPT !.touched = TRUE], 409,
                                    Message("Username already exists"))]
              ELSE req' = [req EXCEPT ![r].pc = "createUser", ![r].touched = TRUE]
  /\ UNCHANGED <<users, nextUserId, sess, OtherTables>>

\* storage.createUser: hash, insert, answer; a unique violation is thrown by
\* the insert and caught by the handler
RegisterCreate(r) ==
  LET q == req[r] IN
  /\ q.pc = "createUser" /\ q.ep = "register"
  /\ \E salt \in Salts :
       LET user == createUserRow(insertUserSchemaData(q.body), nextUserId, salt) IN
       IF UsersUniqueViolation(user, users)
         THEN /\ req' = [req EXCEPT ![r] =
                           Answer(q, 500, Message("Failed to register user"))]
              /\ UNCHANGED <<users, nextUserId>>
         ELSE /\ users' = users \cup {user}
              /\ nextUserId' = nextUserId + 1
              /\ req' = [req EXCEPT ![r] = Answer(q, 201, userWithoutPassword(user))]
  /\ UNCHANGED <<sess, OtherTables>>

(***************************************************************************)
(* POST /api/auth/login, POST /api/auth/logout                             *)
(***************************************************************************)

\* validation, then the LocalStrategy verify callback
LoginVerify(r) ==
  LET q == req[r] IN
  /\ q.pc = "route" /\ q.ep = "login"
  /\ IF ~loginSchemaOk(q.body)
       THEN req' = [req EXCEPT ![r] = Answer(q, 400, Message("Invalid login data"))]
       ELSE LET user == getUserByUsername(q.body.username, users) IN
            IF user = None
              THEN req' = [req EXCEPT ![r] =
                             Answer([q EXCEPT !.touched = TRUE], 401,
                                    Message("Incorrect username."))]
            ELSE IF ~bcryptCompare(q.body.password, The(user).password)
              THEN req' = [req EXCEPT ![r] =
                             Answer([q EXCEPT !.touched = TRUE], 401,
                                    Message("Incorrect password."))]
              ELSE req' = [req EXCEPT ![r].pc = "logIn", ![r].touched = TRUE,
                                      ![r].loc = user]
  /\ UNCHANGED <<users, nextUserId, sess, OtherTables>>

\* req.logIn(user): serializeUser stores user.id in the session; then the answer
LoginEstablish(r) ==
  LET q == req[r]
      user == The(q.loc) IN
  /\ q.pc = "logIn" /\ q.ep = "login"
  /\ sess' = [sess EXCEPT ![q.client] = Some(user.id)]
  /\ req' = [req EXCEPT ![r] =
               Answer(q, 200, [message |-> "Login successful",
                               user |-> userWithoutPassword(user)])]
  /\ UNCHANGED <<users, nextUserId, OtherTables>>

\* Logout that answers and leaves the session as it is
Logout_KeepsSession(r) ==
  LET q == req[r] IN
  /\ q.pc = "route" /\ q.ep = "logout"
  /\ req' = [req EXCEPT ![r] = Answer(q, 200, Message("Logout successful"))]
  /\ UNCHANGED <<users, nextUserId, sess, OtherTables>>

\* req.logout(): the session no longer holds a user
Logout(r) ==
  LET q == req[r] IN
  /\ q.pc = "route" /\ q.ep = "logout"
  /\ sess' = [sess EXCEPT ![q.client] = None]
  /\ req' = [req EXCEPT ![r] = Answer(q, 200, Message("Logout successful"))]
  /\ UNCHANGED <<users, nextUserId, OtherTables>>

(***************************************************************************)
(* GET /api/auth/me, GET /api/auth/status                                  *)
(***************************************************************************)
Unauthorized(q) == Answer(q, 401, Message("Unauthorized, please log in"))

\* AuthMe registered without the isAuthenticated guard
AuthMe_Unguarded(r) ==
  LET q == req[r] IN
  /\ q.pc = "route" /\ q.ep = "me"
  /\ req' = [req EXCEPT ![r] =
               Answer(q, 200, IF q.user # None THEN The(q.user) ELSE <<>>)]
  /\ UNCHANGED <<users, nextUserId, sess, OtherTables>>

AuthMe(r) ==
  LET q == req[r] IN
  /\ q.pc = "route" /\ q.ep = "me"
  /\ req' = [req EXCEPT ![r] =
               IF isAuthenticated(q) THEN Answer(q, 200, The(q.user))
                                     ELSE Unauthorized(q)]
  /\ UNCHANGED <<users, nextUserId, sess, OtherTables>>

AuthStatus(r) ==
  LET q == req[r] IN
  /\ q.pc = "route" /\ q.ep = "status"
  /\ req' = [req EXCEPT ![r] =
               IF isAuthenticated(q)
                 THEN Answer(q, 200, [isAuthenticated |-> TRUE, user |-> The(q.user)])
                 ELSE Answer(q, 200, [isAuthenticated |-> FALSE])]
  /\ UNCHANGED <<users, nextUserId, sess, OtherTables>>

(***************************************************************************)
(* PATCH /api/users/:id                                                    *)
(***************************************************************************)

\* z.string().email() on the texts of this model
IsEmail(text) == text \in {"admin@realestate.com", "al@x.com"}

UpdateFields == {"name", "email", "phone"}

\* updateSchema.safeParse: name of at least 2 characters, email an address
updateSchemaOk(body) ==
  /\ "name" \in DOMAIN body => Len(body.name) >= 2
  /\ "email" \in DOMAIN body => IsEmail(body.email)

\* its data: the three keys only, anything else in the body is dropped
updateSchemaData(body) == [f \in DOMAIN body \cap UpdateFields |-> body[f]]

\* updateUserRow that writes all three profile columns, NULL where the
\* updates have no value
updateUserRow_Replace(user, updates) ==
  [f \in DOMAIN user |-> IF f \in DOMAIN updates THEN Some(updates[f])
                         ELSE IF f \in UpdateFields THEN None ELSE user[f]]

\* db.update(users).set(updates).where(id): the row after the update
updateUserRow(user, updates) ==
  [f \in DOMAIN user |-> IF f \in DOMAIN updates THEN Some(updates[f]) ELSE user[f]]

\* SelfMatch that lets every caller through
SelfMatch_Anyone(user, userId) == TRUE

\* the self-match check: (req.user as any).id !== userId refuses the update;
\* NaN differs from every id
SelfMatch(user, userId) == ~userId.nan /\ user.id = userId.val

\* guard, self-match check, validation, then the first getUser
PatchCheck(r) ==
  LET q == req[r]
      userId == parseInt(The(q.param)) IN
  /\ q.pc = "route" /\ q.ep = "patch"
  /\ IF ~isAuthenticated(q)
       THEN req' = [req EXCEPT ![r] = Unauthorized(q)]
     ELSE IF ~SelfMatch(The(q.user), userId)
       THEN req' = [req EXCEPT ![r] =
                      Answer(q, 403, Message("You can only update your own profile"))]
     ELSE IF ~updateSchemaOk(q.body)
       THEN req' = [req EXCEPT ![r] = Answer(q, 400, Message("Invalid profile data"))]
     ELSE IF getUser(userId.val, users) = None
       THEN req' = [req EXCEPT ![r] =
                      Answer([q EXCEPT !.touched = TRUE], 404, Message("User not found"))]
       ELSE req' = [req EXCEPT ![r].pc = "updateUser", ![r].touched = TRUE]
  /\ UNCHANGED <<users, nextUserId, sess, OtherTables>>

\* storage.updateUser: its own existence check
PatchUpdateLookup(r) ==
  LET q == req[r]
      userId == parseInt(The(q.param)).val IN
  /\ q.pc = "updateUser" /\ q.ep = "patch"
  /\ IF getUser(userId, users) = None
       THEN req' = [req EXCEPT ![r] = Answer(q, 500, Message("Failed to update user"))]
       ELSE req' = [req EXCEPT ![r].pc = "updateSet"]
  /\ UNCHANGED <<users, nextUserId, sess, OtherTables>>

\* storage.updateUser: the update statement.  It throws on an empty set
\* clause and on a duplicate email; updateUser catches and returns undefined.
PatchUpdateSet(r) ==
  LET q == req[r]
      userId == parseInt(The(q.param)).val
      updates == updateSchemaData(q.body)
      old == getUser(userId, users)
      failed ==
        \/ old = None
        \/ DOMAIN updates = {}
        \/ /\ "email" \in DOMAIN updates
           /\ \E u \in users : u.id # userId /\ u.email = Some(updates.email) IN
  /\ q.pc = "updateSet" /\ q.ep = "patch"
  /\ IF failed
       THEN /\ req' = [req EXCEPT ![r] =
                         Answer(q, 500, Message("Failed to update user"))]
            /\ UNCHANGED users
       ELSE LET updatedUser == updateUserRow(The(old), updates) IN
            /\ users' = (users \ old) \cup {updatedUser}
            /\ req' = [req EXCEPT ![r] =
                         Answer(q, 200, [message |-> "Profile updated successfully",
                                         user |-> userWithoutPassword(updatedUser)])]
  /\ UNCHANGED <<nextUserId, sess, OtherTables>>

(***************************************************************************)
(* Saved properties: persistence adapter and the four endpoints            *)
(***************************************************************************)
MaxSavedId == 2           \* values the serial saved_properties.id may take

\* storage.getProperty(id)
getProperty(id, table) == { p \in table : p.id = id }

\* the saved_properties rows of one (userId, propertyId) pair
SavedPair(userId, propertyId, table) ==
  { sp \in table : sp.userId = userId /\ sp.propertyId = propertyId }

\* isPropertySaved that expects one row of a pair at most
isPropertySaved_Single(userId, propertyId, table) ==
  Cardinality(SavedPair(userId, propertyId, table)) = 1

\* storage.isPropertySaved
isPropertySaved(userId, propertyId, table) == SavedPair(userId, propertyId, table) # {}

\* unsaveProperty that deletes the rows of the listing whoever saved it
unsaveProperty_AnyUser(userId, propertyId, table) ==
  { sp \in table : sp.propertyId # propertyId }

\* storage.unsaveProperty: the table after the delete
unsaveProperty(userId, propertyId, table) == table \ SavedPair(userId, propertyId, table)

\* defaultNow() at an insert into a table: the reading of the database clock,
\* which is that of the latest row when both were taken in the same tick
\* and later otherwise
Latest(table) ==
  IF table = {} THEN 0
  ELSE LET newest == CHOOSE x \in table : \A y \in table : y.createdAt <= x.createdAt
       IN newest.createdAt

defaultNow(table) == { t \in {Latest(table), Latest(table) + 1} : t > 0 }

\* ORDER BY created_at ASC, the contrary of the order the queries ask for
RECURSIVE OldestFirst(_)
OldestFirst(rows) ==
  IF rows = {} THEN { <<>> }
  ELSE UNION { { <<oldest>> \o rest : rest \in OldestFirst(rows \ {oldest}) } :
                 oldest \in { x \in rows : \A y \in rows : x.createdAt <= y.createdAt } }

\* ORDER BY created_at DESC: the orders the database may list the rows in,
\* rows of one creation time in any order
RECURSIVE NewestFirst(_)
NewestFirst(rows) ==
  IF rows = {} THEN { <<>> }
  ELSE UNION { { <<newest>> \o rest : rest \in NewestFirst(rows \ {newest}) } :
                 newest \in { x \in rows : \A y \in rows : y.createdAt <= x.createdAt } }

\* storage.getSavedProperties: saved rows of the user joined with their
\* listing, newest saved first (the results the query may give)
getSavedProperties(userId, savedTable, propertyTable) ==
  LET joined == { sp \in savedTable :
                    sp.userId = userId /\ getProperty(sp.propertyId, propertyTable) # {} }
  IN { [ i \in 1..Len(ordered) |-> The(getProperty(ordered[i].propertyId, propertyTable)) ] :
         ordered \in NewestFirst(joined) }

\* insertSavedPropertySchema.safeParse({userId, propertyId: req.body.propertyId}):
\* propertyId must be a number
insertSavedPropertySchemaOk(body) == "propertyId" \in DOMAIN body

UserTables == <<users, nextUserId, sess>>

\* GET /api/saved-properties
SavedList(r) ==
  LET q == req[r] IN
  /\ q.pc = "route" /\ q.ep = "savedList"
  /\ IF ~isAuthenticated(q)
       THEN req' = [req EXCEPT ![r] = Unauthorized(q)]
       ELSE \E result \in getSavedProperties(The(q.user).id, saved, properties) :
               req' = [req EXCEPT ![r] =
                         Answer([q EXCEPT !.touched = TRUE], 200, [items |-> result])]
  /\ UNCHANGED <<UserTables, OtherTables>>

\* POST /api/saved-properties: guard, validation, then the listing lookup
SaveCheck(r) ==
  LET q == req[r] IN
  /\ q.pc = "route" /\ q.ep = "savedPost"
  /\ req' = [req EXCEPT ![r] =
               IF ~isAuthenticated(q) THEN Unauthorized(q)
               ELSE IF ~insertSavedPropertySchemaOk(q.body)
                 THEN Answer(q, 400, Message("Invalid property data"))
               ELSE IF getProperty(q.body.propertyId, properties) = {}
                 THEN Answer([q EXCEPT !.touched = TRUE], 404, Message("Property not found"))
               ELSE [q EXCEPT !.pc = "saveProperty", !.touched = TRUE]]
  /\ UNCHANGED <<UserTables, OtherTables>>

\* SaveLookup that goes on to the insert without looking
SaveLookup_NoCheck(r) ==
  LET q == req[r] IN
  /\ q.pc = "saveProperty" /\ q.ep = "savedPost"
  /\ req' = [req EXCEPT ![r].pc = "saveInsert"]
  /\ UNCHANGED <<UserTables, OtherTables>>

\* storage.saveProperty: the select for an existing row of the pair; when
\* there are several, existing[0] is whichever the database lists first
SaveLookup(r) ==
  LET q == req[r]
      existing == SavedPair(The(q.user).id, q.body.propertyId, saved) IN
  /\ q.pc = "saveProperty" /\ q.ep = "savedPost"
  /\ IF existing # {}
       THEN \E first \in existing : req' = [req EXCEPT ![r] = Answer(q, 201, first)]
       ELSE req' = [req EXCEPT ![r].pc = "saveInsert"]
  /\ UNCHANGED <<UserTables, OtherTables>>

\* SaveInsert on a table with a unique constraint on (userId, propertyId):
\* the insert of a second row for a pair throws and the handler answers 500
SaveInsert_Unique(r) ==
  LET q == req[r] IN
  /\ q.pc = "saveInsert" /\ q.ep = "savedPost"
  /\ nextSavedId <= MaxSavedId
  /\ IF SavedPair(The(q.user).id, q.body.propertyId, saved) # {}
       THEN /\ req' = [req EXCEPT ![r] =
                         Answer(q, 500, Message("Failed to save property"))]
            /\ UNCHANGED <<saved, nextSavedId>>
       ELSE \E now \in defaultNow(saved) :
              LET newSavedProperty ==
                    [id |-> nextSavedId, userId |-> The(q.user).id,
                     propertyId |-> q.body.propertyId, createdAt |-> now] IN
              /\ saved' = saved \cup {newSavedProperty}
              /\ nextSavedId' = nextSavedId + 1
              /\ req' = [req EXCEPT ![r] = Answer(q, 201, newSavedProperty)]
  /\ UNCHANGED <<UserTables, properties, probe, agents, seed, enquiries>>

\* storage.saveProperty: the insert; createdAt defaults to the time of the
\* insert
SaveInsert(r) ==
  LET q == req[r] IN
  /\ q.pc = "saveInsert" /\ q.ep = "savedPost"
  /\ nextSavedId <= MaxSavedId
  /\ \E now \in defaultNow(saved) :
       LET newSavedProperty ==
             [id |-> nextSavedId, userId |-> The(q.user).id,
              propertyId |-> q.body.propertyId, createdAt |-> now] IN
       /\ saved' = saved \cup {newSavedProperty}
       /\ nextSavedId' = nextSavedId + 1
       /\ req' = [req EXCEPT ![r] = Answer(q, 201, newSavedProperty)]
  /\ UNCHANGED <<UserTables, properties, probe, agents, seed, enquiries>>

\* DELETE /api/saved-properties/:propertyId
SavedDelete(r) ==
  LET q == req[r]
      propertyId == parseInt(The(q.param)) IN
  /\ q.pc = "route" /\ q.ep = "savedDelete"
  /\ IF ~isAuthenticated(q)
       THEN req' = [req EXCEPT ![r] = Unauthorized(q)] /\ UNCHANGED saved
     ELSE IF propertyId.nan
       THEN /\ req' = [req EXCEPT ![r] = Answer(q, 400, Message("Invalid property ID"))]
            /\ UNCHANGED saved
       ELSE /\ saved' = unsaveProperty(The(q.user).id, propertyId.val, saved)
            /\ req' = [req EXCEPT ![r] =
                         Answer([q EXCEPT !.touched = TRUE], 200,
                                Message("Property removed from saved list successfully"))]
  /\ UNCHANGED <<UserTables, properties, nextSavedId, probe, agents, seed, enquiries>>

\* GET /api/saved-properties/:propertyId/check
SavedCheck(r) ==
  LET q == req[r]
      propertyId == parseInt(The(q.param)) IN
  /\ q.pc = "route" /\ q.ep = "savedCheck"
  /\ req' = [req EXCEPT ![r] =
               IF ~isAuthenticated(q) THEN Unauthorized(q)
               ELSE IF propertyId.nan
                 THEN Answer(q, 400, Message("Invalid property ID"))
               ELSE Answer([q EXCEPT !.touched = TRUE], 200,
                           [isSaved |-> isPropertySaved(The(q.user).id, propertyId.val, saved)])]
  /\ UNCHANGED <<UserTables, OtherTables>>

(***************************************************************************)
(* Enquiries                                                               *)
(***************************************************************************)
MaxEnquiryId == 2         \* values the serial enquiries.id may take

\* insertEnquirySchema: the four contact fields are required texts
EnquiryFields == {"name", "email", "phone", "message"}

insertEnquirySchemaOk(body) == EnquiryFields \subseteq DOMAIN body

\* storage.getEnquiries: the results the query may give
getEnquiries(table) == NewestFirst(table)

\* POST /api/enquiries: validation, then storage.createEnquiry; no row of the
\* table is ever deleted, so the serial id is the number of rows plus one
CreateEnquiry(r) ==
  LET q == req[r]
      id == Cardinality(enquiries) + 1 IN
  /\ q.pc = "route" /\ q.ep = "enquiry"
  /\ IF ~insertEnquirySchemaOk(q.body)
       THEN /\ req' = [req EXCEPT ![r] = Answer(q, 400, Message("Invalid enquiry data"))]
            /\ UNCHANGED enquiries
       ELSE /\ id <= MaxEnquiryId
            /\ \E now \in defaultNow(enquiries) :
                 LET enquiry == [id |-> id, name |-> q.body.name, email |-> q.body.email,
                                 phone |-> q.body.phone, message |-> q.body.message,
                                 createdAt |-> now] IN
                 /\ enquiries' = enquiries \cup {enquiry}
                 /\ req' = [req EXCEPT ![r] = Answer(q, 201, enquiry)]
  /\ UNCHANGED <<UserTables, properties, saved, nextSavedId, probe, agents, seed>>

(***************************************************************************)
(* Specification of the accounts endpoints: registration and login         *)
(***************************************************************************)
Request(client, ep, param, body) ==
  [client |-> client, ep |-> ep, param |-> param, body |-> body]

Init ==
  /\ properties = SeedProperties
  /\ users = SeedUsers
  /\ nextUserId = 2
  /\ saved = {}
  /\ nextSavedId = 1
  /\ sess = [c \in Clients |-> None]
  /\ req = [r \in ReqIds |-> IdleReq]
  /\ probe = ProbeIdle
  /\ agents = SeedAgents
  /\ seed = SeedSettled
  /\ enquiries = {}

AccountRequests ==
  { Request("c1", "register", None, [username |-> "alice", password |-> "secret1"]),
    Request("c1", "register", None, [username |-> "alice", password |-> ""]),
    Request("c1", "login", None, [username |-> "admin", password |-> "admin123"]),
    Request("c1", "login", None, [username |-> "alice", password |-> "secret1"]),
    Request("c1", "login", None, [username |-> "alice", password |-> ""]) }

Next ==
  \E r \in ReqIds :
     \/ \E q \in AccountRequests : Receive(r, q)
     \/ RegisterLookup(r)
     \/ RegisterCreate(r)
     \/ LoginVerify(r)
     \/ LoginEstablish(r)

Spec == Init /\ [][Next]_vars

(***************************************************************************)
(* Specification of registration alone: taken and free usernames, a taken  *)
(* email, a body without password, registrations that overlap              *)
(***************************************************************************)
RegisterRequests ==
  { Request("c1", "register", None, [username |-> "alice", password |-> "secret1"]),
    Request("c1", "register", None, [username |-> "alice", password |-> ""]),
    Request("c1", "register", None, [username |-> "admin", password |-> "secret1"]),
    Request("c1", "register", None,
            [username |-> "bob", password |-> "secret1",
             email |-> "admin@realestate.com", role |-> "admin"]),
    Request("c1", "register", None, [username |-> "alice"]) }

NextRegister ==
  \E r \in ReqIds :
     \/ \E q \in RegisterRequests : Receive(r, q)
     \/ RegisterLookup(r)
     \/ RegisterCreate(r)

SpecRegister == Init /\ [][NextRegister]_vars

(***************************************************************************)
(* Specification of the profile endpoints: who am I, status, profile update*)
(***************************************************************************)
ProfileRequests ==
  { Request("c1", "register", None, [username |-> "alice", password |-> "secret1"]),
    Request("c1", "login", None, [username |-> "admin", password |-> "admin123"]),
    Request("c1", "me", None, <<>>),
    Request("c1", "status", None, <<>>),
    Request("c1", "patch", Some(<<"1">>), [name |-> "Al", role |-> "user"]) }

NextProfile ==
  \E r \in ReqIds :
     \/ \E q \in ProfileRequests : Receive(r, q)
     \/ RegisterLookup(r)
     \/ RegisterCreate(r)
     \/ LoginVerify(r)
     \/ LoginEstablish(r)
     \/ AuthMe(r)
     \/ AuthStatus(r)
     \/ PatchCheck(r)
     \/ PatchUpdateLookup(r)
     \/ PatchUpdateSet(r)

SpecProfile == Init /\ [][NextProfile]_vars

(***************************************************************************)
(* Specification of profile updates: for one's own id and for another id,  *)
(* with and without a row of that id, valid and invalid bodies             *)
(***************************************************************************)
PatchRequests ==
  { Request("c1", "register", None, [username |-> "alice", password |-> "secret1"]),
    Request("c1", "login", None, [username |-> "admin", password |-> "admin123"]),
    Request("c1", "patch", Some(<<"1">>), [name |-> "Al", role |-> "user"]),
    Request("c1", "patch", Some(<<"2">>), [name |-> "Al"]),
    Request("c1", "patch", Some(<<"2">>), [name |-> "A"]),
    Request("c1", "patch", Some(<<"x">>), [phone |-> "555"]) }

NextPatch ==
  \E r \in ReqIds :
     \/ \E q \in PatchRequests : Receive(r, q)
     \/ RegisterLookup(r)
     \/ RegisterCreate(r)
     \/ LoginVerify(r)
     \/ LoginEstablish(r)
     \/ PatchCheck(r)
     \/ PatchUpdateLookup(r)
     \/ PatchUpdateSet(r)

SpecPatch == Init /\ [][NextPatch]_vars

(***************************************************************************)
(* Properties of registration and login                                    *)
(***************************************************************************)

\* request r takes a step of its handler
Steps(r) == req[r].pc \notin {"idle", "done"} /\ req'[r] # req[r]

\* request r is a registration with a valid body
ValidRegister(q) == q.ep = "register" /\ {"username", "password"} \subseteq DOMAIN q.body

\* stored is a bcrypt hash of plain
IsHashOf(stored, plain) == stored = bcryptHash(plain, stored.cost, stored.salt)

\* C3: a registration with a valid body whose username was in table users
\* when the request arrived is answered 409 by its handler's only step, and
\* that step leaves table users as it was.
C3_UsernameTaken ==
  [][ \A r \in ReqIds :
        (ValidRegister(req[r]) /\ req[r].seen # None /\ Steps(r)) =>
           /\ req'[r].pc = "done"
           /\ req'[r].resp.status = 409
           /\ users' = users ]_vars

\* a registration of the taken username admin has been answered 409 after
\* another user was registered
C3_Witness ==
  \E r \in ReqIds :
     /\ ValidRegister(req[r]) /\ req[r].seen # None
     /\ req[r].pc = "done" /\ req[r].resp.status = 409
     /\ Cardinality(users) = 2

\* C4 as stated: a registration with a valid body whose username was not
\* taken when the request arrived ends with 201, a body without password and
\* exactly one more users row, whatever the body's email and whatever other
\* registrations run meanwhile.
C4_AsStated ==
  [][ \A r \in ReqIds :
        (ValidRegister(req[r]) /\ req[r].seen = None /\ Steps(r)
           /\ req'[r].pc = "done") =>
           /\ req'[r].resp.status = 201
           /\ "password" \notin DOMAIN req'[r].resp.body
           /\ Cardinality(users') = Cardinality(users) + 1 ]_vars

WellFormedLogin(q) ==
  /\ q.ep = "login"
  /\ {"username", "password"} \subseteq DOMAIN q.body
  /\ q.body.username # "" /\ q.body.password # ""

AnsweredWith(q, status, text) ==
  /\ q.pc = "done" /\ q.resp.status = status
  /\ q.resp.body = [message |-> text]

\* C5: a login with a well-formed body is decided by the credentials.  Its
\* verification step answers 401 'Incorrect username.' when no row has the
\* username, 401 'Incorrect password.' when the row's hash is not a hash of
\* the password, both without touching the session store, and goes on to
\* logIn otherwise; logIn binds the client's session to that row's id and
\* answers 200 with that user, without a password field.
C5_LoginOutcome ==
  [][ \A r \in ReqIds :
        (WellFormedLogin(req[r]) /\ Steps(r)) =>
           LET q == req[r]
               row == { u \in users : u.username = q.body.username } IN
           IF q.pc = "route" THEN
              /\ sess' = sess
              /\ row = {} => AnsweredWith(req'[r], 401, "Incorrect username.")
              /\ (row # {} /\ ~IsHashOf(The(row).password, q.body.password))
                    => AnsweredWith(req'[r], 401, "Incorrect password.")
              /\ (row # {} /\ IsHashOf(The(row).password, q.body.password))
                    => req'[r].pc = "logIn"
           ELSE
              /\ row # {}
              /\ sess' = [sess EXCEPT ![q.client] = {The(row).id}]
              /\ req'[r].pc = "done" /\ req'[r].resp.status = 200
              /\ req'[r].resp.body.user.username = q.body.username
              /\ "password" \notin DOMAIN req'[r].resp.body.user ]_vars

\* one login refused for its password and another accepted, the session
\* bound to the accepted user
C5_Witness ==
  \E r1, r2 \in ReqIds :
     /\ WellFormedLogin(req[r1])
     /\ AnsweredWith(req[r1], 401, "Incorrect password.")
     /\ WellFormedLogin(req[r2])
     /\ req[r2].pc = "done" /\ req[r2].resp.status = 200
     /\ sess[req[r2].client] = {req[r2].resp.body.user.id}

\* C6 as stated: a successful registration of (u, p) stores a hash of p, and
\* a login that arrives once u is registered with p answers 200 with
\* user.username = u when it gives p and 401 when it gives any other password.
C6_AsStated ==
  /\ \A r \in ReqIds :
       (ValidRegister(req[r]) /\ req[r].pc = "done" /\ req[r].resp.status = 201) =>
          \E u \in users :
             /\ u.id = req[r].resp.body.id
             /\ u.username = req[r].body.username
             /\ IsHashOf(u.password, req[r].body.password)
  /\ \A r \in ReqIds :
       (/\ req[r].ep = "login" /\ req[r].pc = "done"
        /\ {"username", "password"} \subseteq DOMAIN req[r].body
        /\ req[r].seen # None) =>
          IF IsHashOf(The(req[r].seen).password, req[r].body.password)
            THEN /\ req[r].resp.status = 200
                 /\ req[r].resp.body.user.username = req[r].body.username
            ELSE req[r].resp.status = 401

(***************************************************************************)
(* Specification of the guarded endpoints                                  *)
(***************************************************************************)
GuardRequests ==
  { Request("c1", "login", None, [username |-> "admin", password |-> "admin123"]),
    Request("c1", "me", None, <<>>),
    Request("c1", "patch", Some(<<"1">>), [name |-> "Al"]),
    Request("c1", "savedList", None, <<>>),
    Request("c1", "savedPost", None, [propertyId |-> 1, userId |-> 2]),
    Request("c1", "savedDelete", Some(<<"1">>), <<>>),
    Request("c1", "savedCheck", Some(<<"1">>), <<>>) }

NextGuard ==
  \E r \in ReqIds :
     \/ \E q \in GuardRequests : Receive(r, q)
     \/ LoginVerify(r)
     \/ LoginEstablish(r)
     \/ AuthMe(r)
     \/ PatchCheck(r)
     \/ PatchUpdateLookup(r)
     \/ PatchUpdateSet(r)
     \/ SavedList(r)
     \/ SaveCheck(r)
     \/ SaveLookup(r)
     \/ SaveInsert(r)
     \/ SavedDelete(r)
     \/ SavedCheck(r)

SpecGuard == Init /\ [][NextGuard]_vars

(***************************************************************************)
(* Specification with sessions left over from before the users rows        *)
(*                                                                         *)
(* The session table is created when missing and the program never clears  *)
(* it, so at start-up it may hold sessions bound to a user id for which     *)
(* table users has no row (deserializeUser has a branch for exactly that).  *)
(***************************************************************************)
OrphanIds == {9}

InitStale ==
  /\ properties = SeedProperties
  /\ users = SeedUsers
  /\ nextUserId = 2
  /\ saved = {}
  /\ nextSavedId = 1
  /\ sess \in [Clients -> {None} \cup { Some(i) : i \in OrphanIds }]
  /\ req = [r \in ReqIds |-> IdleReq]
  /\ probe = ProbeIdle
  /\ agents = SeedAgents
  /\ seed = SeedSettled
  /\ enquiries = {}

StaleRequests ==
  { Request(c, "login", None, [username |-> "admin", password |-> "admin123"]) :
      c \in Clients }
  \cup { Request(c, ep, None, <<>>) : c \in Clients, ep \in {"logout", "me", "status"} }

NextStale ==
  \E r \in ReqIds :
     \/ \E q \in StaleRequests : Receive(r, q)
     \/ LoginVerify(r)
     \/ LoginEstablish(r)
     \/ Logout(r)
     \/ AuthMe(r)
     \/ AuthStatus(r)

SpecStale == InitStale /\ [][NextStale]_vars

(***************************************************************************)
(* Properties of the responses and of the guards                           *)
(***************************************************************************)

\* the user objects a response body carries: the body itself when it is a
\* user, and its user member
UserObjects(body) ==
  (IF "username" \in DOMAIN body THEN {body} ELSE {})
    \cup (IF "user" \in DOMAIN body THEN {body.user} ELSE {})

\* C7: no response body carries a password field, at top level or in a user
\* object (register, login, auth/me, auth/status, PATCH users/:id).
C7_NoPasswordInResponse ==
  \A r \in ReqIds :
     req[r].pc = "done" =>
        /\ "password" \notin DOMAIN req[r].resp.body
        /\ \A u \in UserObjects(req[r].resp.body) : "password" \notin DOMAIN u

\* a profile update and a status request both answered with the user object
C7_Witness ==
  \E r1, r2 \in ReqIds :
     /\ req[r1].ep = "patch" /\ req[r1].pc = "done" /\ req[r1].resp.status = 200
     /\ UserObjects(req[r1].resp.body) # {}
     /\ req[r2].ep = "status" /\ req[r2].pc = "done"
     /\ UserObjects(req[r2].resp.body) # {}

GuardedEndpoints ==
  {"me", "patch", "savedList", "savedPost", "savedDelete", "savedCheck"}

\* C8 as stated: a request to a guarded endpoint that ends without an
\* authenticated identity attached to it, be it for a session without a user
\* or for a session whose user id has no row, is answered 401 and has queried
\* no table.
C8_AsStated ==
  [][ \A r \in ReqIds :
        (/\ req'[r] # req[r]
         /\ req'[r].ep \in GuardedEndpoints /\ req'[r].pc = "done"
         /\ (req[r].pc \in {"idle", "done"} \/ req[r].user = None)) =>
           /\ AnsweredWith(req'[r], 401, "Unauthorized, please log in")
           /\ ~req'[r].touched
           /\ users' = users /\ properties' = properties /\ saved' = saved ]_vars

\* The guard on sessions that hold no user id: a request to a guarded
\* endpoint with no user attached is answered 401 by its first step, has
\* queried no table by then, and that step changes no table.
GuardRefuses ==
  [][ \A r \in ReqIds :
        (req[r].ep \in GuardedEndpoints /\ req[r].user = None /\ Steps(r)) =>
           /\ AnsweredWith(req'[r], 401, "Unauthorized, please log in")
           /\ ~req'[r].touched
           /\ users' = users /\ properties' = properties /\ saved' = saved ]_vars

\* a guarded request refused with 401 while a listing is saved
GuardRefuses_Witness ==
  \E r \in ReqIds :
     /\ req[r].ep \in GuardedEndpoints
     /\ AnsweredWith(req[r], 401, "Unauthorized, please log in")
     /\ ~req[r].touched
     /\ saved # {}

\* the user id the path names is not the caller's
OtherUser(q) ==
  LET id == parseInt(The(q.param)) IN id.nan \/ The(q.user).id # id.val

\* C9: a profile update by an authenticated caller for an id other than the
\* caller's own is answered 403 by its first step and leaves table users as
\* it was, whatever the body and whether or not a row has that id.
C9_Forbidden ==
  [][ \A r \in ReqIds :
        (req[r].ep = "patch" /\ req[r].user # None /\ OtherUser(req[r]) /\ Steps(r)) =>
           /\ req'[r].pc = "done"
           /\ req'[r].resp.status = 403
           /\ users' = users ]_vars

\* an update with an invalid body for the id of an existing other user has
\* been answered 403
C9_Witness ==
  \E r \in ReqIds :
     /\ req[r].ep = "patch" /\ req[r].pc = "done" /\ req[r].resp.status = 403
     /\ ~updateSchemaOk(req[r].body)
     /\ \E u \in users : parseInt(The(req[r].param)) = Num(u.id)

\* C10 as stated: GET /api/auth/status is answered 200 in every session
\* state, with isAuthenticated true and the user or with isAuthenticated
\* false, never with an error status.
C10_AsStated ==
  \A r \in ReqIds :
     (req[r].ep = "status" /\ req[r].pc = "done") =>
        /\ req[r].resp.status = 200
        /\ "isAuthenticated" \in DOMAIN req[r].resp.body

(***************************************************************************)
(* Properties of sessions                                                  *)
(***************************************************************************)

\* request r arrives in this step
Arrives(r) == req[r].pc \in {"idle", "done"} /\ req'[r] # req[r]

\* the session of client c holds a user id that has no users row
StaleSession(c) == sess[c] # None /\ getUser(The(sess[c]), users) = None

\* C11 as stated: a request that arrives on a session whose user id has no
\* users row is handled as not authenticated: it goes on to its route with no
\* user attached (where the guard answers 401) and is answered with no status
\* other than 401.
C11_AsStated ==
  [][ \A r \in ReqIds :
        (Arrives(r) /\ StaleSession(req'[r].client)) =>
           /\ req'[r].user = None
           /\ req'[r].pc = "done" => req'[r].resp.status = 401 ]_vars

\* C12: the session store holds user ids only; a request that arrives on a
\* session whose id has a row gets as req.user that row as it is now, without
\* its password; and GET /api/auth/me answers 200 with exactly req.user.  So
\* a me request arriving after a profile update shows the updated row.
C12_SessionBinding ==
  [][ /\ \A c \in Clients : sess'[c] # None => The(sess'[c]) \in Nat
      /\ \A r \in ReqIds :
           LET c == req'[r].client IN
           (Arrives(r) /\ sess[c] # None /\ ~StaleSession(c)) =>
              /\ req'[r].pc = "route"
              /\ req'[r].user =
                   Some(userWithoutPassword(The(getUser(The(sess[c]), users))))
      /\ \A r \in ReqIds :
           (req[r].ep = "me" /\ req[r].user # None /\ Steps(r)) =>
              req'[r].resp = [status |-> 200, body |-> The(req[r].user)] ]_vars

\* a me request answered with the name a profile update has set
C12_Witness ==
  \E r \in ReqIds :
     /\ req[r].ep = "me" /\ req[r].pc = "done" /\ req[r].resp.status = 200
     /\ req[r].resp.body.name = Some("Al")
     /\ \E u \in users : u.id = req[r].resp.body.id /\ u.name = Some("Al")

(***************************************************************************)
(* Specification of login and logout on two sessions                       *)
(***************************************************************************)
SessionRequests ==
  { Request("c1", "login", None, [username |-> "admin", password |-> "admin123"]),
    Request("c1", "logout", None, <<>>),
    Request("c1", "me", None, <<>>),
    Request("c1", "status", None, <<>>),
    Request("c2", "login", None, [username |-> "admin", password |-> "admin123"]),
    Request("c2", "status", None, <<>>) }

NextSession ==
  \E r \in ReqIds :
     \/ \E q \in SessionRequests : Receive(r, q)
     \/ LoginVerify(r)
     \/ LoginEstablish(r)
     \/ Logout(r)
     \/ AuthMe(r)
     \/ AuthStatus(r)

SpecSession == Init /\ [][NextSession]_vars

\* C13: logout answers 200 and leaves the client's session without a user,
\* the other sessions as they were; a session without a user gets one only
\* by a login on it that answers 200; a request that arrives on a session
\* without a user has no user attached, and then a guarded endpoint answers
\* 401 and status answers {isAuthenticated: false}.
C13_LogoutTerminates ==
  [][ /\ \A r \in ReqIds :
           (req[r].ep = "logout" /\ Steps(r)) =>
              /\ AnsweredWith(req'[r], 200, "Logout successful")
              /\ sess' = [sess EXCEPT ![req[r].client] = None]
      /\ \A c \in Clients :
           (sess[c] = None /\ sess'[c] # None) =>
              \E r \in ReqIds :
                 /\ req[r].client = c /\ req[r].ep = "login" /\ Steps(r)
                 /\ req'[r].pc = "done" /\ req'[r].resp.status = 200
      /\ \A r \in ReqIds :
           (Arrives(r) /\ sess[req'[r].client] = None) =>
              req'[r].pc = "route" /\ req'[r].user = None
      /\ \A r \in ReqIds :
           (req[r].user = None /\ Steps(r)) =>
              /\ req[r].ep \in GuardedEndpoints =>
                    AnsweredWith(req'[r], 401, "Unauthorized, please log in")
              /\ req[r].ep = "status" =>
                    req'[r].resp = [status |-> 200, body |-> [isAuthenticated |-> FALSE]]
    ]_vars

\* a me request that arrived on the session after its logout is answered 401,
\* while a request that arrived when the session was logged in is still held
C13_Witness ==
  \E r1, r2 \in ReqIds :
     /\ req[r1].ep = "me" /\ ~req[r1].touched
     /\ AnsweredWith(req[r1], 401, "Unauthorized, please log in")
     /\ req[r2].client = req[r1].client /\ req[r2].pc = "route"
     /\ req[r2].user # None /\ r1 < r2
     /\ sess[req[r1].client] = None

(***************************************************************************)
(* Specification of saves that run one after another                       *)
(*                                                                         *)
(* A save request arrives only when no other save is being handled; logins *)
(* and reads overlap with it freely.                                       *)
(***************************************************************************)
SaveRequests ==
  { Request("c1", "login", None, [username |-> "admin", password |-> "admin123"]),
    Request("c1", "savedPost", None, [propertyId |-> 1, userId |-> 2]),
    Request("c1", "savedPost", None, [propertyId |-> 2]),
    Request("c1", "savedPost", None, [propertyId |-> 99]),
    Request("c1", "savedCheck", Some(<<"1">>), <<>>) }

\* a save is being handled
SaveInFlight ==
  \E r \in ReqIds : req[r].ep = "savedPost" /\ req[r].pc \notin {"idle", "done"}

ReceiveInTurn(r, q) ==
  /\ q.ep = "savedPost" => ~SaveInFlight
  /\ Receive(r, q)

NextSaveInTurn ==
  \E r \in ReqIds :
     \/ \E q \in SaveRequests : ReceiveInTurn(r, q)
     \/ LoginVerify(r)
     \/ LoginEstablish(r)
     \/ SaveCheck(r)
     \/ SaveLookup(r)
     \/ SaveInsert(r)
     \/ SavedCheck(r)

SpecSaveInTurn == Init /\ [][NextSaveInTurn]_vars

(***************************************************************************)
(* Properties of saved properties                                          *)
(***************************************************************************)

\* the (userId, propertyId) pairs that have more than one row
DuplicatePairs(table) ==
  { <<s.userId, s.propertyId>> : s \in
      { s1 \in table : \E s2 \in table :
           s2 # s1 /\ s2.userId = s1.userId /\ s2.propertyId = s1.propertyId } }

\* C14: when saves run one after another, no pair ever has two rows, rows
\* once stored stay as they are, and a save answered 201 returns the one
\* stored row of its pair: the row the first save of the pair created.
C14_SavesInTurn ==
  [][ /\ DuplicatePairs(saved') = {}
      /\ saved \subseteq saved'
      /\ \A r \in ReqIds :
           (req'[r].ep = "savedPost" /\ req'[r].pc = "done"
              /\ req'[r].resp.status = 201) =>
              /\ req'[r].resp.body \in saved'
              /\ req'[r].resp.body.propertyId = req'[r].body.propertyId ]_vars

\* two saves of the same listing have both been answered with the same row
C14_Witness ==
  \E r1, r2 \in ReqIds :
     /\ r1 # r2
     /\ req[r1].ep = "savedPost" /\ req[r1].pc = "done" /\ req[r1].resp.status = 201
     /\ req[r2].ep = "savedPost" /\ req[r2].pc = "done" /\ req[r2].resp.status = 201
     /\ req[r1].resp.body = req[r2].resp.body
     /\ Cardinality(saved) = 1

(***************************************************************************)
(* Specification of saves, removals and listings that overlap              *)
(***************************************************************************)
SaveRaceRequests ==
  { Request("c1", "login", None, [username |-> "admin", password |-> "admin123"]),
    Request("c1", "savedPost", None, [propertyId |-> 1, userId |-> 2]),
    Request("c1", "savedPost", None, [propertyId |-> 2]),
    Request("c1", "savedDelete", Some(<<"1">>), <<>>),
    Request("c1", "savedList", None, <<>>) }

NextSave ==
  \E r \in ReqIds :
     \/ \E q \in SaveRaceRequests : Receive(r, q)
     \/ LoginVerify(r)
     \/ LoginEstablish(r)
     \/ SaveCheck(r)
     \/ SaveLookup(r)
     \/ SaveInsert(r)
     \/ SavedDelete(r)
     \/ SavedList(r)

SpecSave == Init /\ [][NextSave]_vars

\* C15: the check and the insert of saveProperty are separate steps and the
\* table accepts any row: a save that found no row of its pair inserts one
\* and answers 201 whatever the table holds by then, so two overlapping saves
\* of one pair both insert (the witness is a table with two rows of a pair).
C15_InsertUnconditional ==
  [][ \A r \in ReqIds :
        (req[r].ep = "savedPost" /\ req[r].pc = "saveInsert" /\ Steps(r)) =>
           /\ req'[r].pc = "done" /\ req'[r].resp.status = 201
           /\ req'[r].resp.body \notin saved
           /\ saved' = saved \cup {req'[r].resp.body}
           /\ req'[r].resp.body.userId = The(req[r].user).id
           /\ req'[r].resp.body.propertyId = req[r].body.propertyId ]_vars

\* two saves of one pair have both been answered 201, each with a row of its
\* own, and the table holds both rows
C15_Witness ==
  \E r1, r2 \in ReqIds :
     /\ req[r1].ep = "savedPost" /\ req[r1].pc = "done" /\ req[r1].resp.status = 201
     /\ req[r2].ep = "savedPost" /\ req[r2].pc = "done" /\ req[r2].resp.status = 201
     /\ req[r1].resp.body.id # req[r2].resp.body.id
     /\ {req[r1].resp.body, req[r2].resp.body} \subseteq saved
     /\ DuplicatePairs(saved) # {}

(***************************************************************************)
(* seedDatabase                                                            *)
(*                                                                         *)
(* Each await of the function is one step: the two counts, the three       *)
(* inserts.  An insert that throws is caught by the outer catch, which     *)
(* logs the error and ends the run.                                        *)
(***************************************************************************)
AppState == <<saved, nextSavedId, sess, req, probe, enquiries>>

\* a start of the server calls seedDatabase
SeedStart(p) ==
  /\ seed[p].pc = "idle"
  /\ seed' = [seed EXCEPT ![p].pc = "countAgents"]
  /\ UNCHANGED <<agents, properties, users, nextUserId, AppState>>

\* SELECT COUNT(*) FROM agents
SeedCountAgents(p) ==
  /\ seed[p].pc = "countAgents"
  /\ seed' = [seed EXCEPT ![p].pc = "countProperties",
                          ![p].agentCount = Cardinality(agents)]
  /\ UNCHANGED <<agents, properties, users, nextUserId, AppState>>

\* SeedCountProperties that goes on to the inserts whatever the counts are
SeedCountProperties_NoProbe(p) ==
  /\ seed[p].pc = "countProperties"
  /\ seed' = [seed EXCEPT ![p].pc = "agents",
                          ![p].propertyCount = Cardinality(properties)]
  /\ UNCHANGED <<agents, properties, users, nextUserId, AppState>>

\* SELECT COUNT(*) FROM properties, then the decision: return when either
\* table has a row
SeedCountProperties(p) ==
  LET propertyCount == Cardinality(properties) IN
  /\ seed[p].pc = "countProperties"
  /\ seed' = [seed EXCEPT ![p].pc = IF seed[p].agentCount > 0 \/ propertyCount > 0
                                      THEN "skipped" ELSE "agents",
                          ![p].propertyCount = propertyCount]
  /\ UNCHANGED <<agents, properties, users, nextUserId, AppState>>

\* SeedInsertAgents on a table agents without the unique constraint on email
SeedInsertAgents_NoUnique(p) ==
  /\ seed[p].pc = "agents"
  /\ agents' = agents \cup InsertAgentRows(SeedAgentValues, Cardinality(agents))
  /\ seed' = [seed EXCEPT ![p].pc = "properties"]
  /\ UNCHANGED <<properties, users, nextUserId, AppState>>

\* db.insert(agents).values([...]): one statement for the four rows; it
\* throws when a row's email is in the table already
SeedInsertAgents(p) ==
  LET rows == InsertAgentRows(SeedAgentValues, Cardinality(agents)) IN
  /\ seed[p].pc = "agents"
  /\ IF \E a \in agents, b \in rows : a.email = b.email
       THEN seed' = [seed EXCEPT ![p] = SeedOver("failed")] /\ UNCHANGED agents
       ELSE seed' = [seed EXCEPT ![p].pc = "properties"] /\ agents' = agents \cup rows
  /\ UNCHANGED <<properties, users, nextUserId, AppState>>

\* db.insert(properties).values([...]): the eight listings, serial ids
SeedInsertProperties(p) ==
  /\ seed[p].pc = "properties"
  /\ properties' = properties \cup
       { InsertPropertyRow(SeedPropertyValues[i], Cardinality(properties) + i) :
           i \in DOMAIN SeedPropertyValues }
  /\ seed' = [seed EXCEPT ![p].pc = "admin"]
  /\ UNCHANGED <<agents, users, nextUserId, AppState>>

\* bcrypt.hash("admin123", 10) and db.insert(users).values(admin)
SeedInsertAdmin(p) ==
  LET user == [AdminUser EXCEPT !.id = nextUserId] IN
  /\ seed[p].pc = "admin"
  /\ IF UsersUniqueViolation(user, users)
       THEN /\ seed' = [seed EXCEPT ![p] = SeedOver("failed")]
            /\ UNCHANGED <<users, nextUserId>>
       ELSE /\ seed' = [seed EXCEPT ![p] = SeedOver("done")]
            /\ users' = users \cup {user}
            /\ nextUserId' = nextUserId + 1
  /\ UNCHANGED <<agents, properties, AppState>>

\* an empty database and no run of seedDatabase started yet
InitSeed ==
  /\ properties = {}
  /\ users = {}
  /\ nextUserId = 1
  /\ saved = {}
  /\ nextSavedId = 1
  /\ sess = [c \in Clients |-> None]
  /\ req = [r \in ReqIds |-> IdleReq]
  /\ probe = ProbeIdle
  /\ agents = {}
  /\ seed = [p \in SeedRuns |-> SeedIdle]
  /\ enquiries = {}

NextSeed ==
  \E p \in SeedRuns :
     \/ SeedStart(p)
     \/ SeedCountAgents(p)
     \/ SeedCountProperties(p)
     \/ SeedInsertAgents(p)
     \/ SeedInsertProperties(p)
     \/ SeedInsertAdmin(p)

SpecSeed == InitSeed /\ [][NextSeed]_vars

(***************************************************************************)
(* Properties of seedDatabase                                              *)
(***************************************************************************)
SeedTables == <<agents, properties, users, nextUserId>>

\* the tables hold the seed rows and nothing else
Seeded == agents = SeedAgents /\ properties = SeedProperties /\ users = SeedUsers

\* C16: a run that finds a row in agents or in properties returns at the
\* probe and inserts nothing; and once a run has seeded the empty database
\* the tables hold the 4 agents, the 8 listings and the admin user, and no
\* step of a later run changes them.
C16_SeedIdempotent ==
  [][ /\ \A p \in SeedRuns :
           (/\ seed[p].pc = "countProperties" /\ seed'[p] # seed[p]
            /\ (seed[p].agentCount > 0 \/ Cardinality(properties) > 0)) =>
              seed'[p].pc = "skipped" /\ SeedTables' = SeedTables
      /\ (\E p \in SeedRuns : seed[p].pc = "done") =>
           /\ Seeded /\ SeedTables' = SeedTables
           /\ Cardinality(agents) = 4 /\ Cardinality(properties) = 8
           /\ Cardinality(users) = 1 ]_vars

\* a second run has counted the rows of the first and returned
C16_Witness ==
  \E p, q \in SeedRuns :
     /\ seed[p].pc = "done"
     /\ seed[q].pc = "skipped" /\ seed[q].agentCount = 4 /\ seed[q].propertyCount = 8
     /\ Seeded

\* C17 as stated: runs that have both passed the row-count probe both
\* insert: the agents insert of a run that found the tables empty adds its
\* four rows whatever another run has inserted meanwhile.
C17_AsStated ==
  [][ \A p \in SeedRuns :
        (seed[p].pc = "agents" /\ seed'[p] # seed[p]) =>
           /\ seed'[p].pc = "properties"
           /\ Cardinality(agents') = Cardinality(agents) + Len(SeedAgentValues) ]_vars

\* C17, amended: runs started together can all pass the probe, but no seed
\* row is ever duplicated: the first agents insert wins, every other run that
\* passed the probe fails on the unique agents.email and inserts nothing.
C17_NoDuplicateSeed ==
  /\ agents \subseteq SeedAgents
  /\ properties \subseteq SeedProperties
  /\ users \subseteq SeedUsers
  /\ Cardinality({ p \in SeedRuns : seed[p].pc \in {"properties", "admin", "done"} }) <= 1

\* two runs passed the probe; one has seeded, the other has failed
C17_Witness ==
  \E p, q \in SeedRuns :
     /\ seed[p].pc = "done" /\ seed[q].pc = "failed"
     /\ Cardinality(agents) = 4 /\ Cardinality(properties) = 8
     /\ Cardinality(users) = 1

(***************************************************************************)
(* Specification of the catalogue: storage.createProperty after seeding    *)
(***************************************************************************)
\* insertPropertySchema = createInsertSchema(properties).omit({id}): the
\* notNull columns without default are required; price is any integer, and
\* images (jsonb) is any JSON value, an empty list included
insertPropertySchemaOk(v) ==
  /\ {"city", "location", "type", "category", "price", "images"} \subseteq DOMAIN v
  /\ v.price \in Int
  /\ v.images \in Nat

CatalogInputs ==
  LET base == { [city |-> "Pune", location |-> "Baner", type |-> t, category |-> c,
                 price |-> pr, images |-> n] :
                  t \in {"villa", "plot"}, c \in {"buy", "rent", "pg"},
                  pr \in {-1, 0, 45000}, n \in {0, 1, 2} } IN
  base
    \cup { [city |-> v.city, location |-> v.location, type |-> v.type,
            category |-> v.category, price |-> v.price, images |-> v.images,
            status |-> "sold", bedrooms |-> Some(2)] : v \in base }
    \cup { [city |-> "Pune", location |-> "Baner", type |-> "plot",
            category |-> "buy", price |-> 45000] }

\* a caller validates v with insertPropertySchema and calls
\* storage.createProperty(v); the serial id follows on the rows there are
CreateProperty(v) ==
  /\ Cardinality(properties) < Len(SeedPropertyValues) + MaxExtraProperties
  /\ IF insertPropertySchemaOk(v)
       THEN properties' = properties \cup {createProperty(v, Cardinality(properties) + 1)}
       ELSE UNCHANGED properties
  /\ UNCHANGED <<UserTables, saved, nextSavedId, probe, req, agents, seed, enquiries>>

NextCatalog == \E v \in CatalogInputs : CreateProperty(v)

SpecCatalog == Init /\ [][NextCatalog]_vars

\* C18 as stated: every row of table properties has at least one image and
\* a price that is not negative, after seeding and after any createProperty
\* calls with inputs insertPropertySchema accepts.
C18_AsStated ==
  \A row \in properties : row.images >= 1 /\ row.price >= 0

(***************************************************************************)
(* Properties of error responses                                           *)
(***************************************************************************)

\* the fixed texts the handler of an endpoint answers 500 with
GenericMessages(ep) ==
  CASE ep = "register"    -> {"Failed to register user"}
    [] ep = "login"       -> {"Login failed"}
    [] ep = "logout"      -> {"Logout failed"}
    [] ep = "patch"       -> {"Failed to update user", "Failed to update profile"}
    [] ep = "savedList"   -> {"Failed to get saved properties"}
    [] ep = "savedPost"   -> {"Failed to save property"}
    [] ep = "savedDelete" -> {"Failed to remove saved property"}
    [] ep = "savedCheck"  -> {"Failed to check saved property status"}
    [] OTHER              -> {}

\* C19 as stated: a response with status 500 carries one of the fixed texts
\* of its endpoint and nothing else; the message of the error that caused it
\* is not in the body.
C19_AsStated ==
  \A r \in ReqIds :
     (req[r].pc = "done" /\ req[r].resp.status = 500) =>
        \E m \in GenericMessages(req[r].ep) : req[r].resp.body = Message(m)

(***************************************************************************)
(* POST /api/ai/chat                                                       *)
(***************************************************************************)
\* req.body.messages as the handler tests it: a JSON value is an array or not
ChatBodies ==
  { <<>>,
    [enhancedPrompt |-> "hi"],
    [messages |-> [array |-> FALSE, value |-> "hi"]],
    [messages |-> [array |-> TRUE, value |-> <<>>]],
    [messages |-> [array |-> TRUE, value |-> <<"3 BHK in Juhu?">>]] }

\* !messages || !Array.isArray(messages)
InvalidMessages(body) == "messages" \notin DOMAIN body \/ ~body.messages.array

\* what the fetch of the upstream service comes to: it rejects (service
\* unreachable); it answers with a status that is not 2xx; it answers 2xx
\* with a body that has no candidates[0].content.parts[0]; or with one whose
\* text is missing, empty or a generated text
UpstreamOutcomes ==
  { [reached |-> FALSE],
    [reached |-> TRUE, ok |-> FALSE],
    [reached |-> TRUE, ok |-> TRUE, part |-> FALSE],
    [reached |-> TRUE, ok |-> TRUE, part |-> TRUE, text |-> None],
    [reached |-> TRUE, ok |-> TRUE, part |-> TRUE, text |-> Some("")],
    [reached |-> TRUE, ok |-> TRUE, part |-> TRUE, text |-> Some("Try Juhu Heights.")] }

ChatFallback ==
  [message |-> "Failed to generate AI response",
   content |-> "I apologize, but I encountered an error while processing your request. Please try again later.",
   success |-> FALSE]

ChatApology == "I apologize, but I couldn't generate a response."

\* the handler up to the await of fetch: the format check, then the one
\* request to the upstream service (loc holds what that request comes to)
ChatRoute(r) ==
  LET q == req[r] IN
  /\ q.pc = "route" /\ q.ep = "chat"
  /\ IF InvalidMessages(q.body)
       THEN req' = [req EXCEPT ![r] =
                      Answer(q, 400, Message("Invalid chat messages format"))]
       ELSE \E o \in UpstreamOutcomes :
               req' = [req EXCEPT ![r].pc = "fetch", ![r].calls = q.calls + 1,
                                  ![r].loc = Some(o)]
  /\ UNCHANGED <<UserTables, OtherTables>>

\* text || fallback: a missing or empty text counts as none
GeneratedText(o) == IF o.text = None \/ o.text = Some("") THEN ChatApology ELSE The(o.text)

\* the handler after the await: a rejection, a status that is not 2xx and a
\* body without candidates[0].content.parts[0] all throw into the catch
ChatUpstream(r) ==
  LET q == req[r]
      o == The(q.loc)
      thrown == ~o.reached \/ ~o.ok \/ ~o.part IN
  /\ q.pc = "fetch" /\ q.ep = "chat"
  /\ req' = [req EXCEPT ![r] =
               IF thrown THEN Answer(q, 500, ChatFallback)
                         ELSE Answer(q, 200, [content |-> GeneratedText(o),
                                              success |-> TRUE])]
  /\ UNCHANGED <<UserTables, OtherTables>>

ChatRequests == { Request("c1", "chat", None, b) : b \in ChatBodies }

NextChat ==
  \E r \in ReqIds :
     \/ \E q \in ChatRequests : Receive(r, q)
     \/ ChatRoute(r)
     \/ ChatUpstream(r)

SpecChat == Init /\ [][NextChat]_vars

\* the upstream response carries a generated text
HasCandidateText(o) ==
  o.reached /\ o.ok /\ o.part /\ o.text # None /\ o.text # Some("")

\* C20 as stated: a chat request without a messages array is answered 400
\* and calls upstream never; any other calls upstream once, and is answered
\* 500 with the fallback content and success false when upstream is
\* unreachable, answers a status that is not 2xx or sends no candidate text,
\* and 200 with the generated text and success true otherwise; a request is
\* answered once.
C20_AsStated ==
  [][ \A r \in ReqIds :
        /\ (req[r].ep = "chat" /\ req[r].pc = "route" /\ Steps(r)) =>
              IF InvalidMessages(req[r].body)
                THEN /\ req'[r].pc = "done" /\ req'[r].resp.status = 400
                     /\ req'[r].calls = 0
                ELSE req'[r].pc = "fetch" /\ req'[r].calls = 1
        /\ (req[r].ep = "chat" /\ req[r].pc = "fetch" /\ Steps(r)) =>
              /\ req'[r].pc = "done" /\ req'[r].calls = 1
              /\ IF HasCandidateText(The(req[r].loc))
                   THEN req'[r].resp =
                          [status |-> 200,
                           body |-> [content |-> The(The(req[r].loc).text),
                                     success |-> TRUE]]
                   ELSE req'[r].resp = [status |-> 500, body |-> ChatFallback]
        /\ (req[r].ep = "chat" /\ req[r].pc = "done" /\ req'[r].ep = "chat"
              /\ req'[r].pc = "done") => req'[r].resp = req[r].resp ]_vars

(***************************************************************************)
(* Order of the lists                                                      *)
(***************************************************************************)
EnquiryBodies ==
  { [name |-> "Asha", email |-> "asha@example.com", phone |-> "98", message |-> "Call me"],
    [name |-> "Asha"] }

ListRequests ==
  { Request("c1", "login", None, [username |-> "admin", password |-> "admin123"]),
    Request("c1", "savedPost", None, [propertyId |-> 1]),
    Request("c1", "savedPost", None, [propertyId |-> 2]),
    Request("c1", "savedList", None, <<>>) }
  \cup { Request("c2", "enquiry", None, b) : b \in EnquiryBodies }

\* a request other than a list is being handled
WriteInFlight ==
  \E r \in ReqIds : req[r].ep # "savedList" /\ req[r].pc \notin {"idle", "done"}

\* requests other than lists arrive one after another; a list may arrive
\* while another request is being handled
ReceiveList(r, q) ==
  /\ q.ep # "savedList" => ~WriteInFlight
  /\ Receive(r, q)

NextLists ==
  \E r \in ReqIds :
     \/ \E q \in ListRequests : ReceiveList(r, q)
     \/ LoginVerify(r)
     \/ LoginEstablish(r)
     \/ SaveCheck(r)
     \/ SaveLookup(r)
     \/ SaveInsert(r)
     \/ SavedList(r)
     \/ CreateEnquiry(r)

SpecLists == Init /\ [][NextLists]_vars

\* list is rows, each once, no row before one created later than it
IsNewestFirst(list, rows) ==
  /\ Len(list) = Cardinality(rows)
  /\ { list[i] : i \in 1..Len(list) } = rows
  /\ \A i, j \in 1..Len(list) : i < j => list[i].createdAt >= list[j].createdAt

\* the saved_properties rows of one user
SavedRowsOf(userId, table) == { sp \in table : sp.userId = userId }

\* items lists the listings of rows, one per row, newest row first
OrderedAnswer(items, rows) ==
  \E list \in [1..Len(items) -> rows] :
     /\ IsNewestFirst(list, rows)
     /\ \A i \in 1..Len(items) : {items[i]} = getProperty(list[i].propertyId, properties)

\* C21: GET /api/saved-properties answers the listings of the session user's
\* saved rows, one per row, in descending order of the rows' createdAt;
\* getEnquiries lists every enquiry once in descending order of createdAt; and
\* a save whose lookup finds the pair already saved answers with an existing
\* row and leaves table saved_properties, hence every user's list, as it was.
C21_NewestFirst ==
  [][ /\ \A list \in getEnquiries(enquiries') : IsNewestFirst(list, enquiries')
      /\ \A r \in ReqIds :
           /\ (req[r].ep = "savedList" /\ Steps(r) /\ req'[r].resp.status = 200) =>
                 OrderedAnswer(req'[r].resp.body.items,
                               SavedRowsOf(The(req[r].user).id, saved))
           /\ (req[r].ep = "savedPost" /\ req[r].pc = "saveProperty" /\ Steps(r)
                 /\ isPropertySaved(The(req[r].user).id, req[r].body.propertyId, saved)) =>
                 /\ req'[r].pc = "done" /\ req'[r].resp.status = 201
                 /\ req'[r].resp.body \in saved
                 /\ saved' = saved
                 /\ \A u \in users :
                      getSavedProperties(u.id, saved', properties')
                        = getSavedProperties(u.id, saved, properties) ]_vars

\* a list of two listings was answered, newest saved row first, a repeated
\* save of the older pair was answered with its row, the pair is still the
\* second of the list, and two enquiries of different times are stored
C21_Witness ==
  /\ req[2].pc = "done" /\ req[2].ep = "savedList" /\ req[2].resp.status = 200
  /\ Len(req[2].resp.body.items) = 2
  /\ req[1].pc = "done" /\ req[1].ep = "savedPost" /\ req[1].resp.status = 201
  /\ req[1].resp.body.id = 1
  /\ req[1].resp.body \in saved
  /\ \E newer \in saved : newer.createdAt > req[1].resp.body.createdAt
                            /\ req[2].resp.body.items[1].id = newer.propertyId
  /\ req[2].resp.body.items[2].id = req[1].resp.body.propertyId
  /\ \E e1, e2 \in enquiries : e1.createdAt < e2.createdAt

(***************************************************************************)
(* What a profile update writes                                            *)
(***************************************************************************)
\* every variable but req
Stored == <<properties, users, nextUserId, saved, nextSavedId, sess, probe, agents, seed,
            enquiries>>

\* C22: the step of a PATCH /api/users/:id that answers 200 replaces the
\* users row with id :id by a row that differs from it at most in those of
\* name, email and phone that the body has, and leaves every other row and
\* table as it was; every other step of a PATCH leaves all stored data as it
\* was, and a PATCH answered 400, 401, 403 or 404 is answered by its first
\* step.
C22_PatchFrame ==
  [][ \A r \in ReqIds :
        (req[r].ep = "patch" /\ Steps(r)) =>
          IF req'[r].pc = "done" /\ req'[r].resp.status = 200
            THEN LET id == parseInt(The(req[r].param)).val
                     old == getUser(id, users)
                     new == getUser(id, users') IN
                 /\ old # None /\ new # None
                 /\ users' \ new = users \ old
                 /\ DOMAIN The(new) = DOMAIN The(old)
                 /\ \A f \in DOMAIN The(old) :
                      The(new)[f] # The(old)[f] =>
                        f \in UpdateFields \cap DOMAIN req[r].body
                 /\ UNCHANGED <<properties, nextUserId, saved, nextSavedId, sess, probe,
                                agents, seed, enquiries>>
            ELSE /\ UNCHANGED Stored
                 /\ (req'[r].pc = "done" /\ req'[r].resp.status \in {400, 401, 403, 404})
                      => req[r].pc = "route" ]_vars

\* the administrator's update with a name and a role in its body has been
\* answered 200: the row has the new name and the role it had
C22_Witness ==
  \E r \in ReqIds :
     /\ req[r].ep = "patch" /\ req[r].pc = "done" /\ req[r].resp.status = 200
     /\ "role" \in DOMAIN req[r].body /\ req[r].body.role # AdminUser.role
     /\ \E u \in users : /\ u.id = AdminUser.id /\ u.name = Some(req[r].body.name)
                          /\ u.name # AdminUser.name
                          /\ u.role = AdminUser.role

(***************************************************************************)
(* Saved properties of two users                                           *)
(***************************************************************************)
\* the row of a second account, registered as alice
AliceUser == createUserRow([username |-> "alice", password |-> "secret1"], 2, "s1")

\* the seeded database after alice has registered and both the
\* administrator (client c1) and alice (client c2) have logged in
InitShared ==
  /\ properties = SeedProperties
  /\ users = SeedUsers \cup {AliceUser}
  /\ nextUserId = 3
  /\ saved = {}
  /\ nextSavedId = 1
  /\ sess = [c \in Clients |-> IF c = "c1" THEN Some(AdminUser.id) ELSE Some(AliceUser.id)]
  /\ req = [r \in ReqIds |-> IdleReq]
  /\ probe = ProbeIdle
  /\ agents = SeedAgents
  /\ seed = SeedSettled
  /\ enquiries = {}

SharedRequests ==
  { Request("c2", "savedPost", None, [propertyId |-> 1]),
    Request("c1", "savedPost", None, [propertyId |-> 1, userId |-> 2]),
    Request("c1", "savedPost", None, [propertyId |-> 99]),
    Request("c1", "savedDelete", Some(<<"1">>), <<>>),
    Request("c1", "savedCheck", Some(<<"1">>), <<>>),
    Request("c1", "savedList", None, <<>>) }

NextShared ==
  \E r \in ReqIds :
     \/ \E q \in SharedRequests : Receive(r, q)
     \/ SaveCheck(r)
     \/ SaveLookup(r)
     \/ SaveInsert(r)
     \/ SavedDelete(r)
     \/ SavedCheck(r)
     \/ SavedList(r)

SpecShared == InitShared /\ [][NextShared]_vars

SavedEndpoints == {"savedPost", "savedDelete", "savedCheck", "savedList"}

\* C23: a step of a saved-properties request of a session user creates only
\* rows with that user's id and the id of a listing in table properties,
\* removes only rows with that user's id, and answers what it would answer
\* were the rows of all other users absent: a created or found row of that
\* user, that user's list, or whether that user has a row of the listing.
C23_Isolation ==
  [][ \A r \in ReqIds :
        (req[r].ep \in SavedEndpoints /\ req[r].user # None /\ Steps(r)) =>
          LET me == The(req[r].user).id
              mine == SavedRowsOf(me, saved) IN
          /\ \A sp \in saved' \ saved :
                sp.userId = me /\ getProperty(sp.propertyId, properties) # {}
          /\ \A sp \in saved \ saved' : sp.userId = me
          /\ (req'[r].pc = "done" /\ req'[r].resp.status \in {200, 201}) =>
                CASE req[r].ep = "savedPost" ->
                       req'[r].resp.body \in SavedRowsOf(me, saved')
                  [] req[r].ep = "savedList" ->
                       req'[r].resp.body.items \in getSavedProperties(me, mine, properties)
                  [] req[r].ep = "savedCheck" ->
                       req'[r].resp.body.isSaved
                         = isPropertySaved(me, parseInt(The(req[r].param)).val, mine)
                  [] req[r].ep = "savedDelete" ->
                       req'[r].resp.body = Message("Property removed from saved list successfully")
      ]_vars

\* the administrator's save with alice's id in its body was answered with a
\* row of the administrator, the administrator's removal of listing 1 was
\* answered 200, and alice's row of listing 1 is in the table
C23_Witness ==
  \E r1, r2 \in ReqIds :
     /\ req[r1].pc = "done" /\ req[r1].ep = "savedPost" /\ req[r1].resp.status = 201
     /\ "userId" \in DOMAIN req[r1].body /\ req[r1].body.userId = AliceUser.id
     /\ req[r1].resp.body.userId = AdminUser.id
     /\ req[r2].pc = "done" /\ req[r2].ep = "savedDelete" /\ req[r2].resp.status = 200
     /\ SavedPair(AdminUser.id, 1, saved) = {}
     /\ SavedPair(AliceUser.id, 1, saved) # {}

\* C24: DELETE /api/saved-properties/:propertyId of a session user with a
\* numeric id is answered 200 whether or not the pair has a row; after it the
\* table holds exactly the rows it held that are not of the pair (user,
\* propertyId), and isPropertySaved of the pair is false.  The check
\* endpoint answers isSaved true exactly when the table holds at least one
\* row of the pair.
C24_UnsaveFrame ==
  [][ \A r \in ReqIds :
        (req[r].ep \in {"savedDelete", "savedCheck"} /\ req[r].user # None
           /\ ~parseInt(The(req[r].param)).nan /\ Steps(r)) =>
          LET me  == The(req[r].user).id
              pid == parseInt(The(req[r].param)).val
              ofPair(sp) == sp.userId = me /\ sp.propertyId = pid IN
          /\ req'[r].pc = "done" /\ req'[r].resp.status = 200
          /\ IF req[r].ep = "savedDelete"
               THEN /\ saved' \subseteq saved
                    /\ \A sp \in saved : sp \in saved' <=> ~ofPair(sp)
                    /\ ~isPropertySaved(me, pid, saved')
               ELSE /\ saved' = saved
                    /\ req'[r].resp.body.isSaved <=> \E sp \in saved : ofPair(sp) ]_vars

\* two rows of the administrator's pair were in the table together (the
\* second was created after the first), a removal was answered 200 and no
\* row of the pair is left
C24_Witness ==
  \E r1, r2 \in ReqIds :
     /\ req[r1].pc = "done" /\ req[r1].ep = "savedDelete" /\ req[r1].resp.status = 200
     /\ req[r2].pc = "done" /\ req[r2].ep = "savedPost" /\ req[r2].resp.status = 201
     /\ req[r2].resp.body.userId = AdminUser.id
     /\ req[r2].resp.body.id = 2 /\ req[r2].resp.body.createdAt = 2
     /\ saved = {}

(***************************************************************************)
(* Roles                                                                   *)
(***************************************************************************)
RoleRequests ==
  { Request("c2", "register", None,
            [username |-> "alice", password |-> "secret1", role |-> "admin"]),
    Request("c1", "login", None, [username |-> "admin", password |-> "admin123"]),
    Request("c2", "login", None, [username |-> "alice", password |-> "secret1"]),
    Request("c1", "patch", Some(<<"1">>), [name |-> "Al", role |-> "user"]),
    Request("c2", "patch", Some(<<"2">>), [name |-> "Al", role |-> "admin"]) }

NextRoles ==
  \E r \in ReqIds :
     \/ \E q \in RoleRequests : Receive(r, q)
     \/ RegisterLookup(r)
     \/ RegisterCreate(r)
     \/ LoginVerify(r)
     \/ LoginEstablish(r)
     \/ PatchCheck(r)
     \/ PatchUpdateLookup(r)
     \/ PatchUpdateSet(r)

SpecRoles == Init /\ [][NextRoles]_vars

\* C25: no step gives a new users row a role other than 'user' or changes
\* the role of a row, and the only row with role 'admin' is the row of the
\* administrator that seedDatabase inserts.
C25_RolesFixed ==
  [][ \A v \in users' :
        /\ (\A u \in users : u.id # v.id) => v.role = "user"
        /\ \A u \in users : u.id = v.id => v.role = u.role
        /\ v.role = "admin" => v.id = AdminUser.id /\ v.username = AdminUser.username
    ]_vars

\* a registration and two profile updates that carried a role were answered
\* 201 and 200: alice has role 'user' and the administrator role 'admin'
C25_Witness ==
  /\ \E r \in ReqIds :
       /\ req[r].ep = "patch" /\ req[r].pc = "done" /\ req[r].resp.status = 200
       /\ req[r].body.role = "admin" /\ req[r].resp.body.user.role = "user"
  /\ \E r \in ReqIds :
       /\ req[r].ep = "patch" /\ req[r].pc = "done" /\ req[r].resp.status = 200
       /\ req[r].body.role = "user" /\ req[r].resp.body.user.role = "admin"
  /\ \E u \in users : u.username = "alice" /\ u.role = "user"
  /\ \E u \in users : u.username = "admin" /\ u.role = "admin"

=============================================================================
